---- MODULE Spec2Model ----
(***************************************************************************)
(* A model of the Siodb Rust driver (src/siodb/mod.rs, results.rs,         *)
(* errors.rs): the connection object SiodbConn, its handshake, the         *)
(* execute / next / close operations and the row decoder.                  *)
(*                                                                         *)
(* Every public method is one action.  What the peer and the operating     *)
(* system do during a call (the frame the server answers with, whether a   *)
(* write or a read fails, the bytes that arrive for a row) is an input of  *)
(* the action, drawn from the small sets defined below.                    *)
(*                                                                         *)
(* A Rust call ends in one of three ways, kept apart in the model:         *)
(*   Ok     the method returned Ok(..)                                     *)
(*   Err    the method returned Err(DriverError)                           *)
(*   Panic  an .unwrap() / .expect() failed: the thread unwinds, nothing   *)
(*          is returned to the caller                                      *)
(***************************************************************************)
EXTENDS Integers, Sequences, FiniteSets, TLC

VARIABLES
    conn,        \* the SiodbConn value: "none" (before new), "open" (new
                 \* returned it), "failed" (new returned Err), "panicked"
    stream,      \* the socket behind SiodbConn.stream / buf_stream:
                 \* "none", "open", "shutdown", "closed"
    result_set,  \* SiodbConn.result_set : Option<ResultSet>
    last,        \* the most recent call: its name, its outcome and the
                 \* transport / file operations it performed, in order
    stats,       \* counters over the whole life of the connection
    wire         \* one frame on the transport, as bytes: what write_message
                 \* put there and what read_message made of it

vars == <<conn, stream, result_set, last, stats, wire>>

-----------------------------------------------------------------------------
(* Bounds of the model.                                                    *)

MaxCols == 2        \* columns in a ServerResponse
MaxMsgs == 2        \* error messages in a ServerResponse
MaxRows == 2        \* rows counted in one result set
MaxRowBytes == 3    \* bytes the transport delivers to one next()

-----------------------------------------------------------------------------
(* Option<T> and the outcome of a call.                                    *)

None == [some |-> FALSE]
Some(x) == [some |-> TRUE, v |-> x]

Ok(b) == [kind |-> "Ok", val |-> b, details |-> ""]
DriverError(msg) == [kind |-> "Err", val |-> FALSE, details |-> msg]
Panic(msg) == [kind |-> "Panic", val |-> FALSE, details |-> msg]

(* Result::unwrap(): an Err becomes a panic. *)
unwrap(r) ==
    IF r.kind = "Err"
    THEN Panic("called Result::unwrap() on an Err value: " \o r.details)
    ELSE r

-----------------------------------------------------------------------------
(* Message type tags of the framing codec.                                 *)

TagCommand == 1
TagServerResponse == 2
TagBeginSessionRequest == 5
TagBeginSessionResponse == 6
TagClientAuthenticationRequest == 7
TagClientAuthenticationResponse == 8

(* Tags the peer may put on a frame it sends. *)
TagsReceived == {TagServerResponse, TagBeginSessionResponse,
                 TagClientAuthenticationResponse}

NoMsg == [none |-> TRUE]

(* One transport or file operation of a call. *)
Ev(e, t, m) == [ev |-> e, tag |-> t, msg |-> m]

(* What the peer answers to a read_message: the read fails ("eof"), the   *)
(* body does not parse ("garbled"), or a frame with a tag and a message.  *)
ReplyEof == [io |-> "eof", tag |-> 0, msg |-> NoMsg]
ReplyGarbled(t) == [io |-> "garbled", tag |-> t, msg |-> NoMsg]
Reply(t, m) == [io |-> "ok", tag |-> t, msg |-> m]

(* write_message: varint type, varint size, body, flush; every failure is *)
(* an .expect().  Returns the outcome and the operations performed.       *)
write_message(ok, message_type, message) ==
    IF ok
    THEN [ret |-> Ok(TRUE), io |-> <<Ev("write", message_type, message)>>]
    ELSE [ret |-> Panic("write_message | Codec error"),
          io |-> <<Ev("write_failed", message_type, message)>>]

(* read_message: reads the type varint, compares it with the expected one *)
(* and only then reads the length-delimited body.                         *)
read_message(message_type, reply) ==
    IF reply.io = "eof"
    THEN [ret |-> Panic("read_message | Codec error"),
          io |-> <<Ev("read_failed", 0, NoMsg)>>, msg |-> NoMsg]
    ELSE IF message_type # reply.tag
    THEN [ret |-> DriverError(
                    "read_message | wrong message type received from Siodb: "
                    \o ToString(reply.tag) \o ". Expected: "
                    \o ToString(message_type) \o "."),
          io |-> <<Ev("read_type", reply.tag, NoMsg)>>, msg |-> NoMsg]
    ELSE IF reply.io = "garbled"
    THEN [ret |-> Panic("read_message | Codec error"),
          io |-> <<Ev("read_failed", reply.tag, NoMsg)>>, msg |-> NoMsg]
    ELSE [ret |-> Ok(TRUE),
          io |-> <<Ev("read", reply.tag, reply.msg)>>, msg |-> reply.msg]

(* The call sites write  self.read_message::<M>(t).unwrap()?  : the       *)
(* unwrap applies to the Result<_, DriverError> that read_message         *)
(* returns, the ? to the inner ProtobufResult, which is always Ok.        *)
read_message_unwrap(message_type, reply) ==
    LET r == read_message(message_type, reply)
    IN  [r EXCEPT !.ret = unwrap(r.ret)]

-----------------------------------------------------------------------------
(* The handshake.                                                          *)

Users == {"root"}
PkFile == "~/.ssh/id_rsa"
Challenges == {"c1"}

BeginSessionRequest(user) == [user_name |-> user]
BeginSessionResponse(started, ch) == [session_started |-> started, challenge |-> ch]
ClientAuthenticationRequest(sig) == [signature |-> sig]
ClientAuthenticationResponse(a) == [authenticated |-> a]

(* Signer::new(MessageDigest::sha512(), key).sign_oneshot_to_vec(challenge) *)
Signature(pkfile, ch) == [digest |-> "sha512", key |-> pkfile, data |-> ch]

(* What happens to the identity file and the key: every step may fail. *)
KeyOutcomes == {"ok", "read_failed", "pem_failed", "sign_failed"}

RepliesBeginSession ==
    {ReplyEof, ReplyGarbled(TagBeginSessionResponse)}
    \cup {Reply(t, BeginSessionResponse(s, c)) :
            t \in TagsReceived, s \in BOOLEAN, c \in Challenges}

RepliesClientAuthentication ==
    {ReplyEof, ReplyGarbled(TagClientAuthenticationResponse)}
    \cup {Reply(t, ClientAuthenticationResponse(a)) :
            t \in TagsReceived, a \in BOOLEAN}

AuthEnvs ==
    [w5 : BOOLEAN, r6 : RepliesBeginSession, key : KeyOutcomes,
     w7 : BOOLEAN, r8 : RepliesClientAuthentication]

(* A signer that reads the key file once more when the key is good. *)
sign_challenge_rereading(pkfile, key, ch) ==
    IF key = "read_failed"
    THEN [ret |-> Panic("Error reading private key '" \o pkfile \o "'"),
          io |-> <<Ev("file_read_failed", 0, NoMsg)>>, sig |-> NoMsg]
    ELSE IF key = "pem_failed"
    THEN [ret |-> Panic("Error loading private key"),
          io |-> <<Ev("file_read", 0, NoMsg), Ev("key_load_failed", 0, NoMsg)>>,
          sig |-> NoMsg]
    ELSE IF key = "sign_failed"
    THEN [ret |-> Panic("Error signing challenge"),
          io |-> <<Ev("file_read", 0, NoMsg), Ev("sign_failed", 0, NoMsg)>>,
          sig |-> NoMsg]
    ELSE [ret |-> Ok(TRUE),
          io |-> <<Ev("file_read", 0, NoMsg), Ev("file_read", 0, NoMsg)>>,
          sig |-> Signature(pkfile, ch)]

(* Hash and sign the challenge: read the file, load the key, sign. *)
sign_challenge(pkfile, key, ch) ==
    IF key = "read_failed"
    THEN [ret |-> Panic("Error reading private key '" \o pkfile \o "'"),
          io |-> <<Ev("file_read_failed", 0, NoMsg)>>, sig |-> NoMsg]
    ELSE IF key = "pem_failed"
    THEN [ret |-> Panic("Error loading private key"),
          io |-> <<Ev("file_read", 0, NoMsg), Ev("key_load_failed", 0, NoMsg)>>,
          sig |-> NoMsg]
    ELSE IF key = "sign_failed"
    THEN [ret |-> Panic("Error signing challenge"),
          io |-> <<Ev("file_read", 0, NoMsg), Ev("sign_failed", 0, NoMsg)>>,
          sig |-> NoMsg]
    ELSE [ret |-> Ok(TRUE),
          io |-> <<Ev("file_read", 0, NoMsg)>>, sig |-> Signature(pkfile, ch)]

(* Checks that let every answer pass. *)
session_refused_never(begin_session_response) == FALSE
authentication_refused_never(client_authentication_response) == FALSE

(* The two checks of the server's answers. *)
session_refused(begin_session_response) == ~begin_session_response.session_started
authentication_refused(client_authentication_response) ==
    ~client_authentication_response.authenticated

(* After the BeginSessionResponse has been read with session_started. *)
authenticate_signed(pkfile, e, begin_session_response) ==
    LET s  == sign_challenge(pkfile, e.key, begin_session_response.challenge)
        w7 == write_message(e.w7, TagClientAuthenticationRequest,
                            ClientAuthenticationRequest(s.sig))
        r8 == read_message_unwrap(TagClientAuthenticationResponse, e.r8)
    IN  IF s.ret.kind # "Ok" THEN [ret |-> s.ret, io |-> s.io]
        ELSE IF w7.ret.kind # "Ok" THEN [ret |-> w7.ret, io |-> s.io \o w7.io]
        ELSE IF r8.ret.kind # "Ok"
        THEN [ret |-> r8.ret, io |-> s.io \o w7.io \o r8.io]
        ELSE IF authentication_refused(r8.msg)
        THEN [ret |-> DriverError("Siodb session not started."),
              io |-> s.io \o w7.io \o r8.io]
        ELSE [ret |-> Ok(TRUE), io |-> s.io \o w7.io \o r8.io]

(* A handshake that is content with the session having started. *)
authenticate_unsigned(user, pkfile, e) ==
    LET w5 == write_message(e.w5, TagBeginSessionRequest, BeginSessionRequest(user))
        r6 == read_message_unwrap(TagBeginSessionResponse, e.r6)
    IN  IF w5.ret.kind # "Ok" THEN [ret |-> w5.ret, io |-> w5.io]
        ELSE IF r6.ret.kind # "Ok" THEN [ret |-> r6.ret, io |-> w5.io \o r6.io]
        ELSE IF session_refused(r6.msg)
        THEN [ret |-> DriverError("Siodb session not started."),
              io |-> w5.io \o r6.io]
        ELSE [ret |-> Ok(TRUE), io |-> w5.io \o r6.io]

(* SiodbConn::authenticate *)
authenticate(user, pkfile, e) ==
    LET w5 == write_message(e.w5, TagBeginSessionRequest, BeginSessionRequest(user))
        r6 == read_message_unwrap(TagBeginSessionResponse, e.r6)
        a  == authenticate_signed(pkfile, e, r6.msg)
    IN  IF w5.ret.kind # "Ok" THEN [ret |-> w5.ret, io |-> w5.io]
        ELSE IF r6.ret.kind # "Ok" THEN [ret |-> r6.ret, io |-> w5.io \o r6.io]
        ELSE IF session_refused(r6.msg)
        THEN [ret |-> DriverError("Siodb session not started."),
              io |-> w5.io \o r6.io]
        ELSE [ret |-> a.ret, io |-> w5.io \o r6.io \o a.io]

-----------------------------------------------------------------------------
(* ServerResponse, column descriptions and the result set.                 *)

(* ColumnDataType tags with a decoder in next(), and one without. *)
SupportedTypes ==
    {"INT8", "UINT8", "INT16", "UINT16", "INT32", "UINT32", "INT64", "UINT64",
     "FLOAT", "DOUBLE", "TEXT", "BINARY", "TIMESTAMP"}
UnsupportedTypes == {"BOOL"}

ColumnDescription(ft, nullable) == [field_type |-> ft, is_null |-> nullable]

ServerResponse(msgs, cols, has, n) ==
    [message |-> msgs, column_description |-> cols,
     has_affected_row_count |-> has, affected_row_count |-> n]

(* A constructor whose result set starts as one with rows to come. *)
ResultSet_new_streaming(server_response) ==
    [server_response |-> server_response,
     null_bit_mask_present |-> FALSE,
     null_bit_mask_byte_size |-> 0,
     end_of_row |-> FALSE,
     current_row |-> None,
     row_count |-> 0]

(* ResultSet::new *)
ResultSet_new(server_response) ==
    [server_response |-> server_response,
     null_bit_mask_present |-> FALSE,
     null_bit_mask_byte_size |-> 0,
     end_of_row |-> TRUE,
     current_row |-> None,
     row_count |-> 0]

Command(id, sql) == [request_id |-> id, text |-> sql]

(* A loop that puts each text in front of the ones before it. *)
RECURSIVE error_messages_reversed(_, _)
error_messages_reversed(messages, acc) ==
    IF messages = <<>> THEN acc
    ELSE error_messages_reversed(Tail(messages), Head(messages) \o acc)

(* The loop of execute that concatenates the texts of the messages. *)
RECURSIVE error_messages(_, _)
error_messages(messages, acc) ==
    IF messages = <<>> THEN acc
    ELSE error_messages(Tail(messages), acc \o Head(messages))

(* "Check if nullbitmask present": the first nullable column sets the     *)
(* flag and the byte size, which must fit a u8 (try_into().unwrap()).     *)
null_bit_mask_byte_size(column_count) ==
    IF column_count % 8 = 0 THEN column_count \div 8
    ELSE column_count \div 8 + 1

check_dataset(rs) ==
    LET cols == rs.server_response.column_description
        column_count == Len(cols)
        nullable == \E i \in 1..column_count : cols[i].is_null
    IN  IF column_count = 0 THEN [ret |-> Ok(TRUE), rs |-> rs]
        ELSE IF ~nullable
        THEN [ret |-> Ok(TRUE), rs |-> [rs EXCEPT !.end_of_row = FALSE]]
        ELSE IF null_bit_mask_byte_size(column_count) > 255
        THEN [ret |-> Panic("called Result::unwrap() on an Err value: TryFromIntError"),
              rs |-> [rs EXCEPT !.end_of_row = FALSE,
                                !.null_bit_mask_present = TRUE]]
        ELSE [ret |-> Ok(TRUE),
              rs |-> [rs EXCEPT !.end_of_row = FALSE,
                                !.null_bit_mask_present = TRUE,
                                !.null_bit_mask_byte_size =
                                    null_bit_mask_byte_size(column_count)]]

(* A guard that forgets to look at end_of_row: any result set blocks. *)
still_data_any(rs) == rs.some

(* The guard of execute: a result set exists and is not drained. *)
still_data(rs) == rs.some /\ ~rs.v.end_of_row

(* An early return that also throws the pending result set away. *)
still_data_error_discarding(rs) ==
    [ret |-> DriverError("execute | There is still data in the buffer."),
     io |-> <<>>, result_set |-> None]

(* The early return of execute. *)
still_data_error(rs) ==
    [ret |-> DriverError("execute | There is still data in the buffer."),
     io |-> <<>>, result_set |-> rs]

(* After the guard: send the Command, read the ServerResponse, build the *)
(* result set.  e.w: the write succeeds; e.r: the peer's reply.           *)
submit(rs, sql, e) ==
    LET w == write_message(e.w, TagCommand, Command(1, sql))
        r == read_message_unwrap(TagServerResponse, e.r)
        new == ResultSet_new(r.msg)
        d == check_dataset(new)
    IN  IF w.ret.kind # "Ok"
        THEN [ret |-> w.ret, io |-> w.io, result_set |-> rs]
        ELSE IF r.ret.kind # "Ok"
        THEN [ret |-> r.ret, io |-> w.io \o r.io, result_set |-> rs]
        ELSE IF Len(new.server_response.message) > 0
        THEN [ret |-> DriverError("execute | Error message(s) "
                        \o error_messages(new.server_response.message, "") \o "."),
              io |-> w.io \o r.io, result_set |-> Some(new)]
        ELSE [ret |-> d.ret, io |-> w.io \o r.io, result_set |-> Some(d.rs)]

(* An execute that sends the Command again when no ServerResponse came. *)
execute_resending(rs, sql, e) ==
    LET x == submit(rs, sql, e)
    IN  IF still_data(rs) THEN still_data_error(rs)
        ELSE IF x.ret.kind = "Panic" /\ Len(x.io) = 2
        THEN [x EXCEPT !.io = x.io \o x.io]
        ELSE x

(* A getter that returns the field whatever the flag says. *)
get_affected_row_count_unflagged(rs) ==
    IF ~rs.some THEN Panic("called Option::unwrap() on a None value")
    ELSE Ok(rs.v.server_response.affected_row_count)

(* SiodbConn::get_affected_row_count *)
get_affected_row_count(rs) ==
    IF ~rs.some THEN Panic("called Option::unwrap() on a None value")
    ELSE IF rs.v.server_response.has_affected_row_count
    THEN Ok(rs.v.server_response.affected_row_count)
    ELSE Ok(0)

(* SiodbConn::execute. *)
execute(rs, sql, e) ==
    IF still_data(rs) THEN still_data_error(rs) ELSE submit(rs, sql, e)

(* Inputs of execute. *)
Sqls == {"select 1"}
Texts == {"syntax error", " at 1"}

RECURSIVE SeqsUpTo(_, _)
SeqsUpTo(S, n) ==
    IF n = 0 THEN {<<>>}
    ELSE LET shorter == SeqsUpTo(S, n - 1)
         IN  shorter \cup {Append(q, x) : q \in shorter, x \in S}

Columns == {ColumnDescription("INT8", FALSE), ColumnDescription("TEXT", TRUE),
            ColumnDescription("BOOL", FALSE)}
ColumnSeqs == SeqsUpTo(Columns, MaxCols)
MessageSeqs == SeqsUpTo(Texts, MaxMsgs)

(* Responses of the server: errors (with and without columns), statements *)
(* without rows, and row sets.                                            *)
Responses ==
    {ServerResponse(m, c, FALSE, 0) :
        m \in MessageSeqs \ {<<>>},
        c \in {<<>>, <<ColumnDescription("INT8", FALSE)>>}}
    \cup {ServerResponse(<<>>, <<>>, h, n) : h \in BOOLEAN, n \in {0, 2}}
    \cup {ServerResponse(<<>>, c, FALSE, 0) : c \in ColumnSeqs \ {<<>>}}
    \cup {ServerResponse(<<>>, <<ColumnDescription("INT8", FALSE)>>, TRUE, 2)}

RepliesServerResponse ==
    {ReplyEof, ReplyGarbled(TagServerResponse)}
    \cup {Reply(t, ServerResponse(<<>>, <<>>, FALSE, 0)) :
            t \in TagsReceived \ {TagServerResponse}}
    \cup {Reply(TagServerResponse, m) : m \in Responses}

(* e.w: the write of the Command succeeds; e.r: the reply that is read   *)
(* after it.  A call that is rejected, or whose write fails, reads none.  *)
ExecEnvs(rs, writable) ==
    IF still_data(rs) THEN {[w |-> TRUE, r |-> ReplyEof]}
    ELSE {[w |-> FALSE, r |-> ReplyEof]}
         \cup (IF writable THEN [w : {TRUE}, r : RepliesServerResponse] ELSE {})


-----------------------------------------------------------------------------
(* Reading the row substream: CodedInputStream over the buffered reader.   *)
(* bytes is what the transport can deliver, pos the number of bytes        *)
(* already consumed.  A read that needs more than there is fails.          *)

(* n bits of the byte (or small integer) b, from bit lo upwards. *)
bits(b, lo, n) == (b \div (2 ^ lo)) % (2 ^ n)

read_raw_bytes(bytes, pos, n) ==
    IF pos + n <= Len(bytes)
    THEN [ok |-> TRUE, v |-> SubSeq(bytes, pos + 1, pos + n), pos |-> pos + n]
    ELSE [ok |-> FALSE, v |-> <<>>, pos |-> Len(bytes)]

(* The 7-bit groups of a varint, least significant first: at most ten     *)
(* bytes, the last one below 0x80.                                        *)
RECURSIVE read_varint_groups(_, _, _, _)
read_varint_groups(bytes, pos, i, groups) ==
    IF i = 10 \/ pos >= Len(bytes)
    THEN [ok |-> FALSE, v |-> groups, pos |-> pos]
    ELSE LET b == bytes[pos + 1]
             g == Append(groups, b % 128)
         IN  IF b < 128 THEN [ok |-> TRUE, v |-> g, pos |-> pos + 1]
             ELSE read_varint_groups(bytes, pos + 1, i + 1, g)

(* Bit k (0 = least significant) of the number whose 7-bit groups are g. *)
group_bit(g, k) ==
    IF k \div 7 + 1 > Len(g) THEN 0 ELSE bits(g[k \div 7 + 1], k % 7, 1)

(* The low 8*width bits of that number as little-endian bytes, width     *)
(* being 4 or 8.  A varint of one byte is its own value; longer ones are  *)
(* assembled bit by bit, as their value may exceed the integers of the    *)
(* model checker.                                                         *)
groups_to_le(g, width) ==
    IF Len(g) = 1
    THEN [j \in 1..width |-> IF j = 1 THEN g[1] ELSE 0]
    ELSE [j \in 1..width |->
            LET k == 8 * (j - 1)
            IN  group_bit(g, k) + 2 * group_bit(g, k + 1) + 4 * group_bit(g, k + 2)
                + 8 * group_bit(g, k + 3) + 16 * group_bit(g, k + 4)
                + 32 * group_bit(g, k + 5) + 64 * group_bit(g, k + 6)
                + 128 * group_bit(g, k + 7)]

(* read_raw_varint64: the value as 8 little-endian bytes. *)
read_raw_varint64(bytes, pos) ==
    LET r == read_varint_groups(bytes, pos, 0, <<>>)
    IN  [ok |-> r.ok, v |-> groups_to_le(r.v, 8), pos |-> r.pos]

(* read_raw_varint32: the 64-bit varint cut to its low 32 bits. *)
read_raw_varint32(bytes, pos) ==
    LET r == read_varint_groups(bytes, pos, 0, <<>>)
    IN  [ok |-> r.ok, v |-> groups_to_le(r.v, 4), pos |-> r.pos]

(* A little-endian byte string that is small enough to be a number. *)
RECURSIVE le_value(_)
le_value(b) == IF b = <<>> THEN 0 ELSE Head(b) + 256 * le_value(Tail(b))

is_zero(b) == \A i \in 1..Len(b) : b[i] = 0

(* std::str::from_utf8: is the byte string well-formed UTF-8? *)
cont(b) == b >= 128 /\ b <= 191

RECURSIVE from_utf8_ok(_)
from_utf8_ok(b) ==
    IF b = <<>> THEN TRUE
    ELSE LET n == Len(b)
             c == b[1]
             rest(k) == from_utf8_ok(SubSeq(b, k + 1, n))
         IN  IF c < 128 THEN rest(1)
             ELSE IF c >= 194 /\ c <= 223
             THEN n >= 2 /\ cont(b[2]) /\ rest(2)
             ELSE IF c = 224
             THEN n >= 3 /\ b[2] >= 160 /\ b[2] <= 191 /\ cont(b[3]) /\ rest(3)
             ELSE IF c = 237
             THEN n >= 3 /\ b[2] >= 128 /\ b[2] <= 159 /\ cont(b[3]) /\ rest(3)
             ELSE IF c >= 225 /\ c <= 239
             THEN n >= 3 /\ cont(b[2]) /\ cont(b[3]) /\ rest(3)
             ELSE IF c = 240
             THEN n >= 4 /\ b[2] >= 144 /\ b[2] <= 191 /\ cont(b[3]) /\ cont(b[4])
                  /\ rest(4)
             ELSE IF c >= 241 /\ c <= 243
             THEN n >= 4 /\ cont(b[2]) /\ cont(b[3]) /\ cont(b[4]) /\ rest(4)
             ELSE IF c = 244
             THEN n >= 4 /\ b[2] >= 128 /\ b[2] <= 143 /\ cont(b[3]) /\ cont(b[4])
                  /\ rest(4)
             ELSE FALSE

-----------------------------------------------------------------------------
(* Value: the decoded cells.  n holds an integer of 8 or 16 bits; s holds  *)
(* the bytes of a text or binary cell, and the little-endian two's         *)
(* complement bytes of an integer or float of 32 or 64 bits; ts holds      *)
(* <<year, month, day, hours, minutes, seconds, nanoseconds>>.             *)

Value(t, n, s, ts) == [t |-> t, n |-> n, s |-> s, ts |-> ts]
NoValue == Value("none", 0, <<>>, <<>>)

(* One byte as i8 (and a cast that keeps the byte as it is), two          *)
(* little-endian bytes as i16.                                            *)
as_i8_unsigned(b) == b
as_i8(b) == IF b >= 128 THEN b - 256 ELSE b
read_i16(b) == LET u == b[1] + 256 * b[2] IN IF u >= 32768 THEN u - 65536 ELSE u
read_u16(b) == b[1] + 256 * b[2]

(* A u32 length as a number; lengths of 65536 and more are all "longer   *)
(* than any stream of the model".                                         *)
TooLong == 65536
length_of(b) == IF b[3] # 0 \/ b[4] # 0 THEN TooLong ELSE b[1] + 256 * b[2]

(* chrono: Utc.ymd(..) and .and_hms_nano(..) panic unless the date exists *)
(* and the time is valid.                                                 *)
ChronoMaxYear == 262143

is_leap_year(y) == (y % 4 = 0 /\ y % 100 # 0) \/ y % 400 = 0

days_in_month(y, m) ==
    IF m = 2 THEN (IF is_leap_year(y) THEN 29 ELSE 28)
    ELSE IF m \in {4, 6, 9, 11} THEN 30 ELSE 31

ymd_ok(y, m, d) ==
    /\ y <= ChronoMaxYear
    /\ m >= 1 /\ m <= 12
    /\ d >= 1 /\ d <= days_in_month(y, m)

hms_nano_ok(h, mi, sec, nano) ==
    h < 24 /\ mi < 60 /\ sec < 60 /\ nano < 2000000000

(* The fields packed in the 4 date bytes. *)
has_time_part(date) == bits(date[1], 0, 1)
day_of_week(date) == bits(date[1], 1, 3)
day_of_month(date) == (bits(date[1], 4, 4) + bits(date[2], 0, 1) * 16) + 1
month(date) == bits(date[2], 1, 4) + 1

(* year_bytes, transmuted to i32 and passed through to_be(): the first    *)
(* array element ends as the most significant byte on either endianness.  *)
year(date) ==
    LET year_bytes == << 0,
                         bits(date[4], 5, 3),
                         bits(date[3], 5, 3) + bits(date[4], 0, 5) * 8,
                         bits(date[2], 5, 3) + bits(date[3], 0, 5) * 8 >>
    IN  year_bytes[1] * 16777216 + year_bytes[2] * 65536
        + year_bytes[3] * 256 + year_bytes[4]

(* The fields packed in the 6 time bytes. *)
nano(time) ==
    LET nano_bytes == << bits(time[4], 1, 6),
                         bits(time[3], 1, 7) + bits(time[4], 0, 1) * 128,
                         bits(time[2], 1, 7) + bits(time[3], 0, 1) * 128,
                         bits(time[1], 1, 7) + bits(time[2], 0, 1) * 128 >>
    IN  nano_bytes[1] * 16777216 + nano_bytes[2] * 65536
        + nano_bytes[3] * 256 + nano_bytes[4]
seconds(time) == bits(time[4], 7, 1) + bits(time[5], 0, 5) * 2
minutes(time) == bits(time[5], 5, 3) + bits(time[6], 0, 3) * 8
hours(time) == bits(time[6], 3, 5)

(* The outcome of decoding one cell: the call's outcome so far, the cell  *)
(* and the position after it.                                             *)
Cell(r, v, pos) == [ret |-> r, v |-> v, pos |-> pos]
UnwrapFailed == Panic("called Result::unwrap() on an Err value")

read_timestamp(bytes, pos) ==
    LET d == read_raw_bytes(bytes, pos, 4)
        t == read_raw_bytes(bytes, d.pos, 6)
        date == d.v
        timed == has_time_part(date) = 1
        h  == IF timed THEN hours(t.v) ELSE 0
        mi == IF timed THEN minutes(t.v) ELSE 0
        sec == IF timed THEN seconds(t.v) ELSE 0
        ns == IF timed THEN nano(t.v) ELSE 0
        end == IF timed THEN t.pos ELSE d.pos
    IN  IF ~d.ok THEN Cell(UnwrapFailed, NoValue, d.pos)
        ELSE IF timed /\ ~t.ok THEN Cell(UnwrapFailed, NoValue, t.pos)
        ELSE IF ~ymd_ok(year(date), month(date), day_of_month(date))
        THEN Cell(Panic("invalid or out-of-range date"), NoValue, end)
        ELSE IF ~hms_nano_ok(h, mi, sec, ns)
        THEN Cell(Panic("invalid time"), NoValue, end)
        ELSE Cell(Ok(TRUE),
                  Value("Timestamp", 0, <<>>,
                        <<year(date), month(date), day_of_month(date), h, mi, sec, ns>>),
                  end)

(* The value of the raw bytes b of a cell of fixed width. *)
fixed_value(t, b) ==
    CASE t = "Int8" -> Value(t, as_i8(b[1]), <<>>, <<>>)
      [] t = "Uint8" -> Value(t, b[1], <<>>, <<>>)
      [] t = "Int16" -> Value(t, read_i16(b), <<>>, <<>>)
      [] t = "Uint16" -> Value(t, read_u16(b), <<>>, <<>>)
      [] OTHER -> Value(t, 0, b, <<>>)

(* A cell of fixed width: n raw bytes, turned into a value of type t. *)
read_fixed(bytes, pos, n, t) ==
    LET r == read_raw_bytes(bytes, pos, n)
    IN  IF r.ok THEN Cell(Ok(TRUE), fixed_value(t, r.v), r.pos)
        ELSE Cell(UnwrapFailed, NoValue, r.pos)

(* A varint cell. *)
read_varint(r, t) ==
    IF r.ok THEN Cell(Ok(TRUE), Value(t, 0, r.v, <<>>), r.pos)
    ELSE Cell(UnwrapFailed, NoValue, r.pos)

(* TEXT and BINARY: a varint length, then that many bytes. *)
read_length_delimited(bytes, pos, t) ==
    LET l == read_raw_varint32(bytes, pos)
        b == read_raw_bytes(bytes, l.pos, length_of(l.v))
    IN  IF ~l.ok THEN Cell(UnwrapFailed, NoValue, l.pos)
        ELSE IF ~b.ok THEN Cell(UnwrapFailed, NoValue, b.pos)
        ELSE IF t = "Text" /\ ~from_utf8_ok(b.v)
        THEN Cell(Panic("called Result::unwrap() on an Err value: Utf8Error"),
                  NoValue, b.pos)
        ELSE Cell(Ok(TRUE), Value(t, 0, b.v, <<>>), b.pos)

(* A decoder that takes a type it does not know as a cell without bytes. *)
unknown_type_skipped(field_type, pos) == Cell(Ok(TRUE), NoValue, pos)

(* The last arm of the match: return Err(..) from next(). *)
unknown_type(field_type, pos) ==
    Cell(DriverError("read_data | Unknow data type: " \o field_type \o "."), NoValue, pos)

(* match column.field_type *)
read_cell(field_type, bytes, pos) ==
    CASE field_type = "INT8" ->
            read_fixed(bytes, pos, 1, "Int8")
      [] field_type = "UINT8" ->
            read_fixed(bytes, pos, 1, "Uint8")
      [] field_type = "INT16" ->
            read_fixed(bytes, pos, 2, "Int16")
      [] field_type = "UINT16" ->
            read_fixed(bytes, pos, 2, "Uint16")
      [] field_type = "INT32" -> read_varint(read_raw_varint32(bytes, pos), "Int32")
      [] field_type = "UINT32" -> read_varint(read_raw_varint32(bytes, pos), "Uint32")
      [] field_type = "FLOAT" ->
            read_fixed(bytes, pos, 4, "Float")
      [] field_type = "DOUBLE" ->
            read_fixed(bytes, pos, 8, "Double")
      [] field_type = "INT64" -> read_varint(read_raw_varint64(bytes, pos), "Int64")
      [] field_type = "UINT64" -> read_varint(read_raw_varint64(bytes, pos), "Uint64")
      [] field_type = "TEXT" -> read_length_delimited(bytes, pos, "Text")
      [] field_type = "BINARY" -> read_length_delimited(bytes, pos, "Binary")
      [] field_type = "TIMESTAMP" -> read_timestamp(bytes, pos)
      [] OTHER -> unknown_type(field_type, pos)

(* A loop that pushes nothing for a cell that is NULL. *)
RECURSIVE read_row_data_dropping_null(_, _, _, _, _, _, _)
read_row_data_dropping_null(cols, idx, present, bit_mask, bytes, pos, row) ==
    IF idx = Len(cols) THEN [ret |-> Ok(TRUE), row |-> row, pos |-> pos]
    ELSE
    LET is_null == IF present THEN bits(bit_mask[idx \div 8 + 1], idx % 8, 1) ELSE 0
        c == read_cell(cols[idx + 1].field_type, bytes, pos)
    IN  IF is_null = 1
        THEN read_row_data_dropping_null(cols, idx + 1, present, bit_mask, bytes, pos, row)
        ELSE IF c.ret.kind # "Ok" THEN [ret |-> c.ret, row |-> row, pos |-> c.pos]
        ELSE read_row_data_dropping_null(cols, idx + 1, present, bit_mask, bytes, c.pos,
                                         Append(row, Some(c.v)))

(* A loop that takes the bits of a bitmap byte from the most significant *)
(* one downwards.                                                         *)
RECURSIVE read_row_data_msb_first(_, _, _, _, _, _, _)
read_row_data_msb_first(cols, idx, present, bit_mask, bytes, pos, row) ==
    IF idx = Len(cols) THEN [ret |-> Ok(TRUE), row |-> row, pos |-> pos]
    ELSE
    LET is_null == IF present THEN bits(bit_mask[idx \div 8 + 1], 7 - (idx % 8), 1) ELSE 0
        c == read_cell(cols[idx + 1].field_type, bytes, pos)
    IN  IF is_null = 1
        THEN read_row_data_msb_first(cols, idx + 1, present, bit_mask, bytes, pos,
                                     Append(row, None))
        ELSE IF c.ret.kind # "Ok" THEN [ret |-> c.ret, row |-> row, pos |-> c.pos]
        ELSE read_row_data_msb_first(cols, idx + 1, present, bit_mask, bytes, c.pos,
                                     Append(row, Some(c.v)))

(* "Read Row data": the loop over the columns; idx counts from 0. *)
RECURSIVE read_row_data(_, _, _, _, _, _, _)
read_row_data(cols, idx, present, bit_mask, bytes, pos, row) ==
    IF idx = Len(cols) THEN [ret |-> Ok(TRUE), row |-> row, pos |-> pos]
    ELSE
    LET is_null == IF present THEN bits(bit_mask[idx \div 8 + 1], idx % 8, 1) ELSE 0
        c == read_cell(cols[idx + 1].field_type, bytes, pos)
    IN  IF is_null = 1
        THEN read_row_data(cols, idx + 1, present, bit_mask, bytes, pos,
                           Append(row, None))
        ELSE IF c.ret.kind # "Ok" THEN [ret |-> c.ret, row |-> row, pos |-> c.pos]
        ELSE read_row_data(cols, idx + 1, present, bit_mask, bytes, c.pos,
                           Append(row, Some(c.v)))

(* The bytes a call of next() takes from the stream: for the row length, *)
(* for the null bitmap and for the cells.                                 *)
Reads(l, b, d) == [length |-> l, bit_mask |-> b, data |-> d]
NoReads == Reads(0, 0, 0)

(* The outcome of next(): what it returns, the result set afterwards,     *)
(* the bytes taken and the row length read (<<>> when none was read).     *)
NextResult(r, rs, n, rl) ==
    [ret |-> r, result_set |-> rs, nread |-> n, row_length |-> rl, io |-> <<>>]

(* A read of next() that the stream could not serve. *)
stream_failed(x) == [x EXCEPT !.io = <<Ev("read_failed", 0, NoMsg)>>]

(* An early return that forgets the row fetched last. *)
no_more_rows_forgetting(rs) ==
    NextResult(Ok(FALSE), Some([rs.v EXCEPT !.current_row = None]), NoReads, <<>>)

(* if end_of_row { return Ok(false) }: nothing is read, nothing changes. *)
no_more_rows(rs) == NextResult(Ok(FALSE), rs, NoReads, <<>>)

(* A sentinel that is counted as a row. *)
end_of_stream_counted(rs) == [rs EXCEPT !.end_of_row = TRUE, !.row_count = @ + 1]

(* row_length == 0: the result set is drained. *)
end_of_stream(rs) == [rs EXCEPT !.end_of_row = TRUE]

(* A next() that takes every row for the last one. *)
count_row_draining(rs) == [rs EXCEPT !.row_count = @ + 1, !.end_of_row = TRUE]

(* A next() that leaves the count of rows alone. *)
count_row_never(rs) == rs

(* row_length != 0: the row is counted before it is decoded. *)
count_row(rs) == [rs EXCEPT !.row_count = @ + 1]

(* SiodbConn::next. *)
next(rs, bytes) ==
    IF ~rs.some
    THEN NextResult(Panic("called Option::unwrap() on a None value"), rs, NoReads, <<>>)
    ELSE IF rs.v.end_of_row
    THEN no_more_rows(rs)
    ELSE
    LET row_length == read_raw_varint32(bytes, 0)
        l == row_length.pos
        counted == count_row(rs.v)
        present == rs.v.null_bit_mask_present
        bit_mask == IF present
                    THEN read_raw_bytes(bytes, l, rs.v.null_bit_mask_byte_size)
                    ELSE [ok |-> TRUE, v |-> <<>>, pos |-> l]
        b == bit_mask.pos - l
        data == read_row_data(rs.v.server_response.column_description, 0,
                              present, bit_mask.v, bytes, bit_mask.pos, <<>>)
        d == data.pos - bit_mask.pos
    IN  IF ~row_length.ok
        THEN stream_failed(NextResult(Panic("Codec error"), rs, Reads(l, 0, 0), <<>>))
        ELSE IF is_zero(row_length.v)
        THEN NextResult(Ok(FALSE), Some(end_of_stream(rs.v)), Reads(l, 0, 0),
                        row_length.v)
        ELSE IF ~bit_mask.ok
        THEN stream_failed(NextResult(UnwrapFailed, Some(counted), Reads(l, b, 0),
                                      row_length.v))
        ELSE IF data.ret = UnwrapFailed
        THEN stream_failed(NextResult(data.ret, Some(counted), Reads(l, b, d),
                                      row_length.v))
        ELSE IF data.ret.kind # "Ok"
        THEN NextResult(data.ret, Some(counted), Reads(l, b, d), row_length.v)
        ELSE NextResult(Ok(TRUE),
                        Some([counted EXCEPT !.current_row = Some(data.row)]),
                        Reads(l, b, d), row_length.v)

(* Bytes the transport may deliver to one call of next(). *)
ByteVals == {0, 1, 255}
RowStreams == SeqsUpTo(ByteVals, MaxRowBytes)

(* The bytes offered to next(): it reads only from a result set that is   *)
(* not drained.                                                           *)
NextInputs(rs) == IF still_data(rs) THEN RowStreams ELSE {<<>>}

-----------------------------------------------------------------------------
(* query_row: execute(sql).unwrap(), one next().unwrap() whose row is      *)
(* copied, then next().unwrap() until it returns false.  bytes is what the *)
(* stream delivers after the ServerResponse; each next() goes on where the *)
(* one before it stopped.                                                  *)

BytesTaken(n) == n.length + n.bit_mask + n.data
AddReads(a, b) ==
    Reads(a.length + b.length, a.bit_mask + b.bit_mask, a.data + b.data)
StreamAfter(bytes, n) == SubSeq(bytes, BytesTaken(n) + 1, Len(bytes))

(* The value of a call: the one element of the set of its results. *)
The(S) == CHOOSE v \in S : TRUE

(* while self.next().unwrap() {} *)
RECURSIVE skip_rows(_, _, _)
skip_rows(rs, bytes, nread) ==
    The({ IF n.ret.kind # "Ok" \/ n.ret = Ok(FALSE)
          THEN [ret |-> unwrap(n.ret), io |-> n.io, result_set |-> n.result_set,
                nread |-> AddReads(nread, n.nread)]
          ELSE skip_rows(n.result_set, StreamAfter(bytes, n.nread),
                         AddReads(nread, n.nread)) :
          n \in {next(rs, bytes)} })

(* let mut row = None; if self.next().unwrap() { row = Some(scan()) } *)
first_row(n) == IF n.ret = Ok(TRUE) THEN n.result_set.v.current_row ELSE None

(* A query_row that returns after the first next(). *)
query_row_first_only(rs, sql, e, bytes) ==
    The({ IF x.ret.kind # "Ok"
          THEN [ret |-> unwrap(x.ret), io |-> x.io, result_set |-> x.result_set,
                nread |-> NoReads]
          ELSE The({ IF first.ret.kind # "Ok"
                     THEN [ret |-> unwrap(first.ret), io |-> x.io \o first.io,
                           result_set |-> first.result_set, nread |-> first.nread]
                     ELSE [ret |-> Ok(first_row(first)), io |-> x.io,
                           result_set |-> first.result_set, nread |-> first.nread] :
                     first \in {next(x.result_set, bytes)} }) :
          x \in {execute(rs, sql, e)} })

(* SiodbConn::query_row.  Its result is Ok(row), row being the Option it  *)
(* returns, or the panic of one of its unwraps.                           *)
query_row(rs, sql, e, bytes) ==
    The({ IF x.ret.kind # "Ok"
          THEN [ret |-> unwrap(x.ret), io |-> x.io, result_set |-> x.result_set,
                nread |-> NoReads]
          ELSE The({ IF first.ret.kind # "Ok"
                     THEN [ret |-> unwrap(first.ret), io |-> x.io \o first.io,
                           result_set |-> first.result_set, nread |-> first.nread]
                     ELSE The({ IF rest.ret.kind # "Ok"
                                THEN [ret |-> rest.ret, io |-> x.io \o rest.io,
                                      result_set |-> rest.result_set,
                                      nread |-> rest.nread]
                                ELSE [ret |-> Ok(first_row(first)), io |-> x.io,
                                      result_set |-> rest.result_set,
                                      nread |-> rest.nread] :
                                rest \in {skip_rows(first.result_set,
                                                    StreamAfter(bytes, first.nread),
                                                    first.nread)} }) :
                     first \in {next(x.result_set, bytes)} }) :
          x \in {execute(rs, sql, e)} })

-----------------------------------------------------------------------------
(* A frame as bytes: what write_message puts on the stream and what        *)
(* read_message takes from it.  The body is the serialized message.        *)

(* CodedOutputStream::write_raw_varint32 *)
RECURSIVE write_raw_varint32(_)
write_raw_varint32(value) ==
    IF value < 128 THEN <<value>>
    ELSE <<(value % 128) + 128>> \o write_raw_varint32(value \div 128)

(* A u32 as four little-endian bytes. *)
to_le_bytes(value) == [j \in 1..4 |-> (value \div (256 ^ (j - 1))) % 256]

(* The length prefix of a message, read as a varint64, as a number. *)
message_length(b) ==
    IF \E j \in 3..8 : b[j] # 0 THEN TooLong ELSE b[1] + 256 * b[2]

(* A write_message that leaves the size of the message out. *)
write_message_bytes_unsized(message_type, body) ==
    write_raw_varint32(message_type) \o body

(* write_message: varint type, varint size, the serialized message. *)
write_message_bytes(message_type, body) ==
    write_raw_varint32(message_type) \o write_raw_varint32(Len(body)) \o body

(* read_message on the bytes of the stream: the type varint, the          *)
(* comparison, then CodedInputStream::read_message (varint length, body). *)
read_message_bytes(message_type, bytes) ==
    LET t == read_raw_varint32(bytes, 0)
        l == read_raw_varint64(bytes, t.pos)
        b == read_raw_bytes(bytes, l.pos, message_length(l.v))
    IN  IF ~t.ok
        THEN [ret |-> Panic("read_message | Codec error"), body |-> <<>>, pos |-> t.pos]
        ELSE IF t.v # to_le_bytes(message_type)
        THEN [ret |-> DriverError(
                        "read_message | wrong message type received from Siodb: "
                        \o ToString(le_value(t.v)) \o ". Expected: "
                        \o ToString(message_type) \o "."),
              body |-> <<>>, pos |-> t.pos]
        ELSE IF ~l.ok
        THEN [ret |-> Panic("read_message | Codec error"), body |-> <<>>, pos |-> l.pos]
        ELSE IF ~b.ok
        THEN [ret |-> Panic("read_message | Codec error"), body |-> <<>>, pos |-> b.pos]
        ELSE [ret |-> Ok(TRUE), body |-> b.v, pos |-> b.pos]

NoWire == [sent |-> None, bytes |-> <<>>, received |-> None]

-----------------------------------------------------------------------------
(* The state.                                                              *)

Call(op, ret, io, nread, rl) ==
    [op |-> op, ret |-> ret, io |-> io, nread |-> nread, row_length |-> rl]
NoCall == Call("none", Ok(TRUE), <<>>, NoReads, <<>>)

Init ==
    /\ conn = "none"
    /\ stream = "none"
    /\ result_set = None
    /\ last = NoCall
    /\ stats = [commands |-> FALSE, response |-> None]
    /\ wire = NoWire

(* SiodbConn::new: parse_uri(..).unwrap(), connect()?, authenticate()?.   *)
new(uri_ok, connect_ok, user, e) ==
    IF ~uri_ok
    THEN [ret |-> Panic("called Result::unwrap() on an Err value"), io |-> <<>>]
    ELSE IF ~connect_ok
    THEN [ret |-> Panic("Cannot connect"), io |-> <<>>]
    ELSE authenticate(user, PkFile, e)

(* The socket after new: the connection that is returned holds it open;   *)
(* when new fails or panics, the local siodb_conn is dropped, and with it *)
(* both handles of the socket.                                            *)
(* A new that keeps the socket it opened whatever the handshake gives. *)
stream_after_new_leaking(kind, connected) == IF connected THEN "open" ELSE "none"

stream_after_new(kind, connected) ==
    IF kind = "Ok" THEN "open" ELSE IF connected THEN "closed" ELSE "none"

New ==
    /\ conn = "none"
    /\ \E uri_ok \in BOOLEAN, connect_ok \in BOOLEAN, user \in Users, e \in AuthEnvs :
        \E r \in {new(uri_ok, connect_ok, user, e)} :
            /\ last' = Call("new", r.ret, r.io, NoReads, <<>>)
            /\ conn' = CASE r.ret.kind = "Ok" -> "open"
                         [] r.ret.kind = "Err" -> "failed"
                         [] OTHER -> "panicked"
            /\ stream' = stream_after_new(r.ret.kind, uri_ok /\ connect_ok)
            /\ UNCHANGED <<result_set, stats, wire>>

(* After a panic the thread unwinds: the connection and all it owns are  *)
(* dropped.                                                               *)
AfterCall(kind, rs) ==
    /\ conn' = IF kind = "Panic" THEN "panicked" ELSE conn
    /\ stream' = IF kind = "Panic" THEN "closed" ELSE stream
    /\ result_set' = IF kind = "Panic" THEN None ELSE rs

(* Does the call write a frame with this tag? *)
wrote(io, tag) == \E i \in 1..Len(io) : io[i].ev = "write" /\ io[i].tag = tag

(* The ServerResponse a call read, if it read one. *)
response_read(io) ==
    {io[i].msg : i \in {j \in 1..Len(io) :
                            io[j].ev = "read" /\ io[j].tag = TagServerResponse}}

(* What the connection has done so far: whether a Command was written, and *)
(* the ServerResponse read last.                                          *)
noted(st, io) ==
    [commands |-> st.commands \/ wrote(io, TagCommand),
     response |-> IF response_read(io) = {} THEN st.response
                  ELSE Some(CHOOSE m \in response_read(io) : TRUE)]

Execute ==
    /\ conn = "open"
    /\ \E sql \in Sqls, e \in ExecEnvs(result_set, stream = "open") :
        \E x \in {execute(result_set, sql, e)} :
            /\ last' = Call("execute", x.ret, x.io, NoReads, <<>>)
            /\ stats' = noted(stats, x.io)
            /\ AfterCall(x.ret.kind, x.result_set)
            /\ UNCHANGED wire

NextRow ==
    /\ conn = "open"
    /\ \E bytes \in NextInputs(result_set) :
        \E x \in {next(result_set, bytes)} :
            /\ x.result_set.some => x.result_set.v.row_count <= MaxRows
            /\ last' = Call("next", x.ret, x.io, x.nread, x.row_length)
            /\ AfterCall(x.ret.kind, x.result_set)
            /\ UNCHANGED <<stats, wire>>

(* SiodbConn::close: shutdown(Shutdown::Both) on the socket, .expect()ed. *)
(* Nothing else of the connection changes: the stream stays in place, and  *)
(* what it has buffered, or what the socket still holds, can be read.      *)
close(ok) ==
    IF ok THEN [ret |-> Ok(TRUE), io |-> <<Ev("shutdown", 0, NoMsg)>>]
    ELSE [ret |-> Panic("Error while closing connection."),
          io |-> <<Ev("shutdown_failed", 0, NoMsg)>>]

Close ==
    /\ conn = "open"
    /\ \E ok \in BOOLEAN :
        \E x \in {close(ok)} :
            /\ last' = Call("close", x.ret, x.io, NoReads, <<>>)
            /\ conn' = IF ok THEN conn ELSE "panicked"
            /\ stream' = IF ok THEN "shutdown" ELSE "closed"
            /\ result_set' = IF ok THEN result_set ELSE None
            /\ UNCHANGED <<stats, wire>>

Next == New \/ Execute \/ NextRow \/ Close

Spec == Init /\ [][Next]_vars

-----------------------------------------------------------------------------
(* One frame through write_message and read_message, byte by byte.        *)

MaxBodyLen == 129
MaxTag == 300

(* Message types: the six of the protocol, and larger ones whose varint   *)
(* takes more than one byte.                                              *)
MessageTypes ==
    {TagCommand, TagServerResponse, TagBeginSessionRequest, TagBeginSessionResponse,
     TagClientAuthenticationRequest, TagClientAuthenticationResponse}
    \cup {0, 127, 128} \cup {MaxTag}

(* Serialized messages: short ones, and ones around the length where the  *)
(* size varint grows to two bytes.                                        *)
Bodies ==
    {<<>>, <<0>>, <<1>>, <<128, 1>>, <<255, 0, 128>>}
    \cup {[i \in 1..n |-> v] : n \in (MaxBodyLen - 3)..MaxBodyLen, v \in {0, 128}}

WriteFrame ==
    /\ ~wire.sent.some
    /\ \E message_type \in MessageTypes, body \in Bodies :
        wire' = [sent |-> Some([message_type |-> message_type, body |-> body]),
                 bytes |-> write_message_bytes(message_type, body),
                 received |-> None]
    /\ UNCHANGED <<conn, stream, result_set, last, stats>>

ReadFrame ==
    /\ wire.sent.some /\ ~wire.received.some
    /\ \E message_type \in MessageTypes :
        \E r \in {read_message_bytes(message_type, wire.bytes)} :
            wire' = [wire EXCEPT !.received =
                        Some([expected |-> message_type, ret |-> r.ret,
                              body |-> r.body, pos |-> r.pos])]
    /\ UNCHANGED <<conn, stream, result_set, last, stats>>

FrameNext == WriteFrame \/ ReadFrame

FrameSpec == Init /\ [][FrameNext]_vars

-----------------------------------------------------------------------------
(* Rows of wider result sets: an open connection, execute with responses  *)
(* of up to MaxRowCols columns (and some of many columns), and next() on  *)
(* streams built from a row length, a null bitmap and a payload.  The     *)
(* stream offered to a call is kept in wire.bytes.                        *)

MaxRowCols == 3
MaxRowsDecoded == 1

(* Column counts around the byte boundaries of the bitmap and around the  *)
(* greatest size a u8 holds. *)
ManyColumns == {8, 9, 2040, 2041}

RowColumns == {ColumnDescription("INT8", FALSE), ColumnDescription("INT32", TRUE),
               ColumnDescription("TEXT", TRUE)}

RowResponses ==
    {ServerResponse(<<>>, c, FALSE, 0) : c \in SeqsUpTo(RowColumns, MaxRowCols) \ {<<>>}}

(* Responses with many INT8 columns, the last one nullable or none. *)
WideResponses ==
    {ServerResponse(<<>>, [i \in 1..n |-> ColumnDescription("INT8", nullable /\ i = n)],
                    FALSE, 0) : n \in ManyColumns, nullable \in BOOLEAN}

(* The replies to the Command; the wide responses answer the first one. *)
RowExecEnvs(rs) ==
    IF still_data(rs) THEN {[w |-> TRUE, r |-> ReplyEof]}
    ELSE {[w |-> TRUE, r |-> Reply(TagServerResponse, m)] :
            m \in RowResponses \cup (IF rs.some THEN {} ELSE WideResponses)}

(* Null bitmaps of n bytes. *)
Bitmaps(n) ==
    CASE n = 0 -> {<<>>}
      [] n = 1 -> {<<0>>, <<1>>, <<2>>, <<5>>, <<255>>}
      [] n = 2 -> {<<0, 0>>, <<0, 1>>, <<255, 0>>}
      [] OTHER -> {}

Payloads ==
    {<<>>, <<7>>, <<7, 2, 104, 105>>, <<2, 104, 105, 7>>, <<128, 1, 255, 3>>,
     <<1, 2, 3, 4, 5, 6, 7, 8, 9>>}

RowLengths == {1, 4}

RowInputsOf(rs) ==
    IF ~still_data(rs) THEN {<<>>}
    ELSE {<<>>, <<0>>}
         \cup {<<rl>> \o bm \o pl :
                 rl \in RowLengths, bm \in Bitmaps(rs.v.null_bit_mask_byte_size),
                 pl \in Payloads}

(* The connection that new returns when the handshake succeeds. *)
Connected ==
    new(TRUE, TRUE, "root",
        [w5 |-> TRUE, r6 |-> Reply(TagBeginSessionResponse, BeginSessionResponse(TRUE, "c1")),
         key |-> "ok", w7 |-> TRUE,
         r8 |-> Reply(TagClientAuthenticationResponse, ClientAuthenticationResponse(TRUE))])

RowInit ==
    /\ conn = "open"
    /\ stream = "open"
    /\ result_set = None
    /\ last = Call("new", Connected.ret, Connected.io, NoReads, <<>>)
    /\ stats = [commands |-> FALSE, response |-> None]
    /\ wire = NoWire

ExecuteRows ==
    /\ conn = "open"
    /\ \E sql \in Sqls, e \in RowExecEnvs(result_set) :
        \E x \in {execute(result_set, sql, e)} :
            /\ last' = Call("execute", x.ret, x.io, NoReads, <<>>)
            /\ stats' = noted(stats, x.io)
            /\ AfterCall(x.ret.kind, x.result_set)
            /\ wire' = NoWire

NextCells ==
    /\ conn = "open"
    /\ \E bytes \in RowInputsOf(result_set) :
        \E x \in {next(result_set, bytes)} :
            /\ x.result_set.some => x.result_set.v.row_count <= MaxRowsDecoded
            /\ last' = Call("next", x.ret, x.io, x.nread, x.row_length)
            /\ AfterCall(x.ret.kind, x.result_set)
            /\ wire' = [NoWire EXCEPT !.bytes = bytes]
            /\ UNCHANGED stats

RowNext == ExecuteRows \/ NextCells

RowSpec == RowInit /\ [][RowNext]_vars

-----------------------------------------------------------------------------
(* Cells of every type: a connected driver, responses with one column of   *)
(* each supported type and with columns of several types, and rows whose   *)
(* payloads hold the extreme values of the integer types and packed dates  *)
(* and times.  The rows follow the columns: UnknownRowColumns gets a       *)
(* bitmap byte, then the text and the byte of the cells it does not mark.  *)

IntegerRowColumns == <<ColumnDescription("INT8", FALSE), ColumnDescription("UINT64", FALSE)>>
MixedRowColumns ==
    <<ColumnDescription("TEXT", TRUE), ColumnDescription("UINT16", TRUE),
      ColumnDescription("INT8", FALSE)>>
(* A column of a type that next() has no decoder for, after a TEXT one. *)
UnknownRowColumns == <<ColumnDescription("TEXT", TRUE), ColumnDescription("BOOL", TRUE)>>

CellResponses ==
    {ServerResponse(<<>>, <<ColumnDescription(t, FALSE)>>, FALSE, 0) :
        t \in SupportedTypes \cup {"BOOL"}}
    \cup {ServerResponse(<<>>, c, FALSE, 0) :
            c \in {IntegerRowColumns, MixedRowColumns, UnknownRowColumns}}

CellExecEnvs(rs) ==
    IF still_data(rs) THEN {[w |-> TRUE, r |-> ReplyEof]}
    ELSE {[w |-> TRUE, r |-> Reply(TagServerResponse, m)] : m \in CellResponses}

(* The 4 date bytes and the 6 time bytes a server may send. *)
DateBytes == {<<d0, d1, d2, d3>> : d0 \in {0, 1, 241}, d1 \in {0, 1, 30, 224},
                                  d2 \in {0, 255}, d3 \in {0, 128}}
TimeBytes == {<<0, 0, 0, 0, 0, 0>>, <<255, 255, 255, 127, 0, 0>>, <<0, 0, 0, 128, 31, 0>>,
              <<0, 0, 0, 0, 224, 7>>, <<0, 0, 0, 0, 0, 248>>, <<0, 0, 0, 128, 125, 191>>}

(* Payloads of one cell of a type: the least and the greatest value of    *)
(* the integer types (INT32 least also as the ten bytes of a sign-extended *)
(* varint), raw floats, texts, dates with and without a time.             *)
CellPayloads(t) ==
    CASE t = "INT8" -> {<<128>>, <<127>>}
      [] t = "UINT8" -> {<<0>>, <<255>>}
      [] t = "INT16" -> {<<0, 128>>, <<255, 127>>}
      [] t = "UINT16" -> {<<0, 0>>, <<255, 255>>}
      [] t = "INT32" -> {<<128, 128, 128, 128, 8>>, <<255, 255, 255, 255, 7>>,
                         <<128, 128, 128, 128, 248, 255, 255, 255, 255, 1>>}
      [] t = "UINT32" -> {<<0>>, <<255, 255, 255, 255, 15>>}
      [] t = "INT64" -> {<<128, 128, 128, 128, 128, 128, 128, 128, 128, 1>>,
                         <<255, 255, 255, 255, 255, 255, 255, 255, 127>>}
      [] t = "UINT64" -> {<<0>>, <<255, 255, 255, 255, 255, 255, 255, 255, 255, 1>>}
      [] t = "FLOAT" -> {<<0, 0, 128, 63>>}
      [] t = "DOUBLE" -> {<<0, 0, 0, 0, 0, 0, 240, 63>>}
      [] t = "TEXT" -> {<<0>>, <<2, 104, 105>>}
      [] t = "BINARY" -> {<<0>>, <<2, 0, 255>>}
      [] t = "BOOL" -> {<<1>>}
      [] t = "TIMESTAMP" ->
            {d : d \in {x \in DateBytes : x[1] % 2 = 0}}
            \cup {d \o t6 : d \in {x \in DateBytes : x[1] % 2 = 1}, t6 \in TimeBytes}

(* The payloads of a row of MixedRowColumns with this bitmap byte: the    *)
(* values of the cells that are not marked, in the order of the columns.  *)
MixedPayload(bitmap_byte) ==
    (IF bits(bitmap_byte, 0, 1) = 1 THEN <<>> ELSE <<2, 104, 105>>)
    \o (IF bits(bitmap_byte, 1, 1) = 1 THEN <<>> ELSE <<255, 255>>)
    \o (IF bits(bitmap_byte, 2, 1) = 1 THEN <<>> ELSE <<128>>)

(* The rows offered to next(): the row length is the size of the payload. *)
CellInputsOf(rs) ==
    IF ~still_data(rs) THEN {<<>>}
    ELSE LET cols == rs.v.server_response.column_description
         IN  {<<0>>}
             \cup (IF cols = IntegerRowColumns
                   THEN {<<2>> \o pl :
                            pl \in {<<128, 255, 255, 255, 255, 255, 255, 255, 255, 1>>,
                                    <<128, 255, 255, 255, 255, 255, 255, 255, 255, 255, 1>>}}
                   ELSE IF cols = MixedRowColumns
                   THEN {<<Len(MixedPayload(b)), b>> \o MixedPayload(b) : b \in 0..3}
                   ELSE IF cols = UnknownRowColumns
                   THEN {<<1, 3>>, <<1, 2, 0>>, <<1, 1, 1>>, <<2, 0, 0, 1>>}
                   ELSE {<<Len(pl)>> \o pl : pl \in CellPayloads(cols[1].field_type)})

ExecuteCells ==
    /\ conn = "open"
    /\ \E sql \in Sqls, e \in CellExecEnvs(result_set) :
        \E x \in {execute(result_set, sql, e)} :
            /\ last' = Call("execute", x.ret, x.io, NoReads, <<>>)
            /\ stats' = noted(stats, x.io)
            /\ AfterCall(x.ret.kind, x.result_set)
            /\ wire' = NoWire

DecodeCells ==
    /\ conn = "open"
    /\ \E bytes \in CellInputsOf(result_set) :
        \E x \in {next(result_set, bytes)} :
            /\ x.result_set.some => x.result_set.v.row_count <= MaxRows
            /\ last' = Call("next", x.ret, x.io, x.nread, x.row_length)
            /\ AfterCall(x.ret.kind, x.result_set)
            /\ wire' = [NoWire EXCEPT !.bytes = bytes]
            /\ UNCHANGED stats

CellNext == ExecuteCells \/ DecodeCells

CellSpec == RowInit /\ [][CellNext]_vars

-----------------------------------------------------------------------------
(* The affected row count, read between the other calls of an open       *)
(* connection.                                                            *)

GetAffectedRowCount ==
    /\ conn = "open"
    /\ \E x \in {get_affected_row_count(result_set)} :
        /\ last' = Call("get_affected_row_count", x, <<>>, NoReads, <<>>)
        /\ AfterCall(x.kind, result_set)
        /\ UNCHANGED <<stats, wire>>

CountNext == Execute \/ NextRow \/ GetAffectedRowCount

CountSpec == RowInit /\ [][CountNext]_vars

-----------------------------------------------------------------------------
(* query_row on an open connection, with streams of several rows.         *)

MaxQueryRows == 2

(* Rows as the server encodes them: one INT8 cell; one nullable TEXT cell *)
(* that is NULL; one nullable TEXT cell holding the empty text.            *)
EncodedRows == {<<1, 1>>, <<1, 255>>, <<2, 0, 0>>}

RECURSIVE Concat(_)
Concat(q) == IF q = <<>> THEN <<>> ELSE Head(q) \o Concat(Tail(q))

(* Up to MaxQueryRows rows, with or without the zero-length row after them. *)
QueryStreams ==
    {Concat(q) \o end : q \in SeqsUpTo(EncodedRows, MaxQueryRows), end \in {<<>>, <<0>>}}

(* The replies to the Command of a query_row: no reply, an error, a       *)
(* statement without rows, and row sets of one column.                    *)
QueryResponses ==
    {ServerResponse(<<>>, c, FALSE, 0) : c \in SeqsUpTo(Columns, 1)}
    \cup {ServerResponse(<<"syntax error">>, <<>>, FALSE, 0),
          ServerResponse(<<>>, <<>>, TRUE, 2)}

QueryExecEnvs(rs, writable) ==
    IF still_data(rs) THEN {[w |-> TRUE, r |-> ReplyEof]}
    ELSE {[w |-> FALSE, r |-> ReplyEof]}
         \cup (IF writable
               THEN {[w |-> TRUE, r |-> r] :
                        r \in {ReplyEof} \cup {Reply(TagServerResponse, m) : m \in QueryResponses}}
               ELSE {})

(* The streams offered with a reply: all of them after a response that    *)
(* announces rows, two of them otherwise.                                 *)
QueryInputs(rs, e) ==
    IF ~still_data(rs) /\ e.w /\ e.r.io = "ok" /\ e.r.msg.column_description # <<>>
    THEN QueryStreams
    ELSE {<<>>, <<1, 1, 0>>}

QueryRow ==
    /\ conn = "open"
    /\ \E sql \in Sqls, e \in QueryExecEnvs(result_set, stream = "open") :
        \E bytes \in QueryInputs(result_set, e) :
            \E x \in {query_row(result_set, sql, e, bytes)} :
                /\ last' = Call("query_row", x.ret, x.io, x.nread, <<>>)
                /\ stats' = noted(stats, x.io)
                /\ AfterCall(x.ret.kind, x.result_set)
                /\ wire' = [NoWire EXCEPT !.bytes = bytes]

QueryNext == QueryRow \/ Execute \/ Close

QuerySpec == RowInit /\ [][QueryNext]_vars

-----------------------------------------------------------------------------
(* Vocabulary of the properties.  These definitions read the state only;  *)
(* they do not use the operators that model the code.                     *)

(* STREAMING: a result set exists and is not drained. *)
Streaming(rs) == rs.some /\ ~rs.v.end_of_row

(* The error kinds of the driver, told apart by the text of DriverError. *)
IsMisuse(ret) ==
    ret.kind = "Err" /\ ret.details = "execute | There is still data in the buffer."

(* The frames a call wrote or tried to write, and the frames it wrote. *)
WriteAttempts(io, tag) ==
    {i \in 1..Len(io) : io[i].ev \in {"write", "write_failed"} /\ io[i].tag = tag}
Writes(io, tag) == {i \in 1..Len(io) : io[i].ev = "write" /\ io[i].tag = tag}

(* Events of a call that take bytes from the transport. *)
ReadEvents == {"read", "read_type", "read_failed"}
TransportReads(io) == {i \in 1..Len(io) : io[i].ev \in ReadEvents}

BytesRead(call) == call.nread.length + call.nread.bit_mask + call.nread.data

-----------------------------------------------------------------------------
C1_Step ==
    /\ (last'.op = "execute" /\ Streaming(result_set))
         => /\ IsMisuse(last'.ret)
            /\ WriteAttempts(last'.io, TagCommand) = {}
    /\ (last'.op = "execute" /\ ~Streaming(result_set))
         => /\ ~IsMisuse(last'.ret)
            /\ WriteAttempts(last'.io, TagCommand) # {}
    /\ (last'.op = "next" /\ last'.ret = Ok(FALSE))
         => result_set'.some /\ result_set'.v.end_of_row

(* C1: drain-before-submit.  A call of execute made while a result set    *)
(* exists with end_of_row = false fails with the misuse error and writes  *)
(* no Command frame; a call made when no result set exists or when it is  *)
(* drained is accepted (it goes on to write the Command); and whenever    *)
(* next() reports "no more rows" the result set is drained.               *)
C1_DrainBeforeSubmit == [][C1_Step]_vars

C1_Witness ==
    /\ last.op = "execute" /\ IsMisuse(last.ret)
    /\ Streaming(result_set)

C2_Step ==
    (last'.op = "execute" /\ IsMisuse(last'.ret))
        => /\ result_set' = result_set
           /\ conn' = conn
           /\ stream' = stream
           /\ stats' = stats
           /\ last'.io = <<>>
           /\ BytesRead(last') = 0

(* C2: an execute rejected with misuse changes nothing: the stored        *)
(* ServerResponse, end_of_row, the null-bitmap flag and size, row_count   *)
(* and current_row are as before, and the call neither writes to nor      *)
(* reads from the transport.                                              *)
C2_MisuseChangesNothing == [][C2_Step]_vars

C2_Witness ==
    /\ last.op = "execute" /\ IsMisuse(last.ret)
    /\ result_set.some /\ result_set.v.row_count = 1
    /\ result_set.v.current_row.some

ZeroLength == <<0, 0, 0, 0>>

C3_Step ==
    (last'.op = "next" /\ Streaming(result_set) /\ last'.row_length = ZeroLength)
        => /\ last'.ret = Ok(FALSE)
           /\ result_set'.some /\ result_set'.v.end_of_row
           /\ last'.nread.bit_mask = 0 /\ last'.nread.data = 0
           /\ result_set'.v.row_count = result_set.v.row_count
           /\ result_set'.v.current_row = result_set.v.current_row

(* C3: zero-length sentinel.  When next(), called on a streaming result   *)
(* set, reads a row length of 0, it sets end_of_row, returns "no more     *)
(* rows", reads no bitmap and no column bytes, and leaves row_count and   *)
(* current_row as they were.                                              *)
C3_ZeroLengthSentinel == [][C3_Step]_vars

C3_Witness ==
    /\ last.op = "next" /\ last.row_length = ZeroLength
    /\ result_set.some /\ result_set.v.end_of_row
    /\ result_set.v.row_count = 1
    /\ result_set.v.server_response.column_description[1].is_null

-----------------------------------------------------------------------------
(* The ServerResponse that the last call read, if it read one. *)
ResponseRead(call) ==
    {call.io[i].msg : i \in {j \in 1..Len(call.io) :
                                call.io[j].ev = "read" /\ call.io[j].tag = TagServerResponse}}

(* The texts of the messages in their order, one after the other. *)
RECURSIVE Joined(_)
Joined(texts) ==
    IF texts = <<>> THEN "" ELSE Head(texts) \o Joined(Tail(texts))

(* Does the string t occur in the string d? *)
Contains(d, t) ==
    \E i \in 1..(Len(d) - Len(t) + 1) : SubSeq(d, i, i + Len(t) - 1) = t

IsServerError(ret) ==
    /\ ret.kind = "Err"
    /\ SubSeq(ret.details, 1, 27) = "execute | Error message(s) "

(* C4: server error on execute.  When the ServerResponse that execute     *)
(* reads carries one or more messages, execute returns a server error     *)
(* whose text contains the message texts concatenated in the order        *)
(* received; the connection then accepts submissions: no execute is       *)
(* rejected with misuse, and next() reports "no more rows" without        *)
(* reading.                                                               *)
C4_ServerError ==
    \A m \in ResponseRead(last) :
        (last.op = "execute" /\ m.message # <<>>)
            => /\ IsServerError(last.ret)
               /\ Contains(last.ret.details, Joined(m.message))
               /\ conn = "open"
               /\ result_set.some /\ result_set.v.end_of_row
               /\ \A sql \in Sqls, e \in ExecEnvs(result_set, TRUE) :
                      ~IsMisuse(execute(result_set, sql, e).ret)
               /\ \A bytes \in RowStreams :
                      /\ next(result_set, bytes).ret = Ok(FALSE)
                      /\ next(result_set, bytes).nread = NoReads

C4_Witness ==
    /\ last.op = "execute"
    /\ \E m \in ResponseRead(last) : m.message = <<"syntax error", " at 1">>
    /\ last.ret.details = "execute | Error message(s) syntax error at 1."

-----------------------------------------------------------------------------
(* What an accepted execute does on the transport: one Command, and after *)
(* a Command that went out, one read of a frame.                          *)
C5_Call ==
    (last.op = "execute" /\ ~IsMisuse(last.ret))
        => /\ Len(last.io) \in {1, 2}
           /\ last.io[1].ev \in {"write", "write_failed"}
           /\ last.io[1].tag = TagCommand
           /\ last.io[1].msg.request_id = 1
           /\ last.io[1].msg.text \in Sqls
           /\ (Len(last.io) = 2) <=> (last.io[1].ev = "write")
           /\ (Len(last.io) = 2) => last.io[2].ev \in ReadEvents
           /\ (last.ret.kind \in {"Ok", "Err"})
                => /\ Len(last.io) = 2
                   /\ last.io[2].ev = "read"
                   /\ last.io[2].tag = TagServerResponse

(* Nothing else writes a Command, and a ServerResponse or a row is read   *)
(* only after a Command went out.                                         *)
C5_Order ==
    /\ WriteAttempts(last.io, TagCommand) # {}
         => /\ last.op = "execute"
            /\ Cardinality(WriteAttempts(last.io, TagCommand)) = 1
    /\ ResponseRead(last) # {}
         => /\ last.op = "execute"
            /\ 1 \in Writes(last.io, TagCommand)
    /\ result_set.some => stats.commands
    /\ BytesRead(last) > 0 => last.op = "next" /\ stats.commands

C5_Step ==
    /\ C5_Call' /\ C5_Order'
    /\ (last'.op = "next" /\ BytesRead(last') > 0) => Streaming(result_set)
    /\ WriteAttempts(last'.io, TagCommand) # {} => ~Streaming(result_set)

(* C5: request/response discipline.  Every execute that passes the drain  *)
(* guard writes exactly one Command frame (tag 1, request_id 1) and,      *)
(* once it is written, reads exactly one frame, which is a ServerResponse *)
(* (tag 2) whenever the call returns; a ServerResponse or row bytes are   *)
(* read only after a Command was written; no Command is written while a  *)
(* result set is streaming; and no call writes a Command twice.           *)
C5_RequestResponse == [][C5_Step]_vars

C5_Witness ==
    /\ last.op = "execute" /\ last.ret = Ok(TRUE)
    /\ Len(last.io) = 2
    /\ last.io[1] = Ev("write", TagCommand, Command(1, "select 1"))
    /\ last.io[2].ev = "read" /\ last.io[2].tag = TagServerResponse
    /\ Streaming(result_set)

-----------------------------------------------------------------------------
(* The handshake as seen on the transport: the frame events of a call, in *)
(* their order.                                                           *)
FrameEvents == {"write", "write_failed", "read", "read_type", "read_failed"}
Frames(io) == SelectSeq(io, LAMBDA x : x.ev \in FrameEvents)
HandshakeTags == <<TagBeginSessionRequest, TagBeginSessionResponse,
                   TagClientAuthenticationRequest, TagClientAuthenticationResponse>>
HandshakeFrame(io) ==
    \E i \in 1..Len(io) : io[i].ev \in {"write", "write_failed", "read"}
                          /\ \E k \in 1..4 : io[i].tag = HandshakeTags[k]

(* The k-th frame event is the k-th step of the handshake; a step that    *)
(* did not complete is the last one.                                      *)
C6_InOrder(f) ==
    /\ Len(f) <= 4
    /\ \A k \in 1..Len(f) :
        /\ (k \in {1, 3}) => /\ f[k].ev \in {"write", "write_failed"}
                             /\ f[k].tag = HandshakeTags[k]
        /\ (k \in {2, 4}) => /\ f[k].ev \in ReadEvents
                             /\ f[k].ev = "read" => f[k].tag = HandshakeTags[k]
        /\ (k < Len(f)) => f[k].ev \in {"write", "read"}

C6_Call ==
    /\ HandshakeFrame(last.io) => last.op = "new"
    /\ last.op = "new"
         => /\ C6_InOrder(Frames(last.io))
            /\ Len(Frames(last.io)) >= 3
                 => Frames(last.io)[2].msg.session_started = TRUE
            /\ last.ret.kind = "Ok"
                 => /\ Len(Frames(last.io)) = 4
                    /\ Frames(last.io)[4].ev = "read"
                    /\ Frames(last.io)[4].msg.authenticated = TRUE

C6_Step ==
    /\ C6_Call'
    /\ last'.op = "new" => conn = "none" /\ stream = "none"
    /\ (conn' = "open" /\ conn # "open")
         => last'.op = "new" /\ last'.ret.kind = "Ok"

(* C6: handshake ordering.  On the transport that connect has just        *)
(* opened the frames go BeginSessionRequest (tag 5) written,              *)
(* BeginSessionResponse (tag 6) read, ClientAuthenticationRequest (tag 7) *)
(* written, ClientAuthenticationResponse (tag 8) read, in that order; tag *)
(* 7 is written only after a tag 6 response with session_started = TRUE;  *)
(* and the connection becomes usable only after a tag 8 response with     *)
(* authenticated = TRUE.                                                  *)
C6_HandshakeOrder == [][C6_Step]_vars

C6_Witness ==
    /\ last.op = "new" /\ conn = "open" /\ stream = "open"
    /\ Len(last.io) = 5
    /\ last.io[1] = Ev("write", TagBeginSessionRequest, BeginSessionRequest("root"))
    /\ last.io[2].ev = "read" /\ last.io[2].tag = TagBeginSessionResponse
    /\ last.io[2].msg.session_started
    /\ last.io[3].ev = "file_read"
    /\ last.io[4].ev = "write" /\ last.io[4].tag = TagClientAuthenticationRequest
    /\ last.io[5].ev = "read" /\ last.io[5].tag = TagClientAuthenticationResponse
    /\ last.io[5].msg.authenticated

-----------------------------------------------------------------------------
(* The answers of the server that reject the handshake. *)
SessionNotStarted(call) ==
    \E i \in 1..Len(call.io) :
        /\ call.io[i].ev = "read" /\ call.io[i].tag = TagBeginSessionResponse
        /\ ~call.io[i].msg.session_started
NotAuthenticated(call) ==
    \E i \in 1..Len(call.io) :
        /\ call.io[i].ev = "read" /\ call.io[i].tag = TagClientAuthenticationResponse
        /\ ~call.io[i].msg.authenticated

(* C7: rejected handshake.  If the server answers session_started =       *)
(* FALSE, or answers authenticated = FALSE, new returns the error "Siodb  *)
(* session not started." to its caller and yields no connection.          *)
C7_RejectedHandshake ==
    (last.op = "new" /\ (SessionNotStarted(last) \/ NotAuthenticated(last)))
        => /\ last.ret.kind = "Err"
           /\ last.ret.details = "Siodb session not started."
           /\ conn = "failed"
           /\ SessionNotStarted(last)
                => WriteAttempts(last.io, TagClientAuthenticationRequest) = {}

C7_Witness ==
    /\ last.op = "new" /\ conn = "failed"
    /\ NotAuthenticated(last)
    /\ last.ret = DriverError("Siodb session not started.")

(* C8: when authentication is rejected (authenticated = FALSE), the       *)
(* socket that connect opened is closed once new has failed; no open      *)
(* socket is left behind by a failed new.                                 *)
C8_TransportClosed ==
    /\ (last.op = "new" /\ NotAuthenticated(last)) => stream = "closed"
    /\ conn = "failed" => stream = "closed"
    /\ stream = "open" => conn = "open"

C8_Witness ==
    /\ last.op = "new" /\ NotAuthenticated(last)
    /\ last.ret.kind = "Err"
    /\ stream = "closed"
    /\ Writes(last.io, TagClientAuthenticationRequest) # {}

-----------------------------------------------------------------------------
KeyFailures == {"file_read_failed", "key_load_failed", "sign_failed"}
KeyFailed(call) == \E i \in 1..Len(call.io) : call.io[i].ev \in KeyFailures

(* C9: a failure to read the identity file, to load the private key from  *)
(* it, or to sign the challenge is returned by new to its caller as an    *)
(* error value; the thread is not aborted.                                *)
C9_KeyFailureReported ==
    (last.op = "new" /\ KeyFailed(last))
        => last.ret.kind = "Err" /\ conn = "failed"

C9_Witness ==
    /\ last.op = "new" /\ Len(last.io) = 3
    /\ last.io[2].ev = "read" /\ last.io[2].msg.session_started
    /\ last.io[3].ev = "file_read_failed"
    /\ last.ret = Panic("Error reading private key '~/.ssh/id_rsa'")
    /\ conn = "panicked"

(* A frame arrived with another tag than the one the call waits for. *)
WrongTag(call) == \E i \in 1..Len(call.io) : call.io[i].ev = "read_type"

(* C10: wrong message tag.  When the frame received in reply to a Command *)
(* (expected tag 2) or in the handshake (expected tags 6 and 8) carries   *)
(* another tag, execute or new fails with the wrong-message-type error,   *)
(* and that error is returned to its caller.                              *)
C10_WrongTagReported ==
    (last.op \in {"execute", "new"} /\ WrongTag(last))
        => last.ret.kind = "Err"

C10_Witness ==
    /\ last.op = "execute" /\ Len(last.io) = 2
    /\ last.io[1].ev = "write" /\ last.io[1].tag = TagCommand
    /\ last.io[2] = Ev("read_type", TagBeginSessionResponse, NoMsg)
    /\ last.ret.kind = "Panic"
    /\ conn = "panicked"

-----------------------------------------------------------------------------
(* The operations of a call that failed on the transport itself: a write, *)
(* a read that found the stream at its end, a shutdown.                   *)
TransportFailed(call) ==
    \E i \in 1..Len(call.io) :
        \/ call.io[i].ev \in {"write_failed", "shutdown_failed"}
        \/ call.io[i].ev = "read_failed" /\ call.io[i].tag = 0

(* C11: an I/O failure of the transport while a frame is written or read, *)
(* while next() reads a row, or while close() shuts the socket down is    *)
(* returned to the caller of that method as an error value.               *)
C11_TransportErrorReported ==
    TransportFailed(last) => last.ret.kind = "Err"

C11_Witness ==
    /\ last.op = "close"
    /\ last.io = <<Ev("shutdown_failed", 0, NoMsg)>>
    /\ last.ret = Panic("Error while closing connection.")
    /\ conn = "panicked"

-----------------------------------------------------------------------------
(* The number of bytes of the varint of n. *)
VarintLen(n) == IF n < 128 THEN 1 ELSE IF n < 16384 THEN 2 ELSE 3

(* The frame on the wire is a type varint, a size varint and the body. *)
C12_Layout ==
    wire.sent.some
        => LET t == wire.sent.v.message_type
               m == wire.sent.v.body
               n == Len(wire.bytes)
           IN  /\ n = VarintLen(t) + VarintLen(Len(m)) + Len(m)
               /\ SubSeq(wire.bytes, n - Len(m) + 1, n) = m
               /\ wire.bytes[VarintLen(t)] < 128
               /\ wire.bytes[VarintLen(t) + VarintLen(Len(m))] < 128

(* C12: framing round trip.  The bytes that write_message produces for a  *)
(* type t and a message m (varint t, varint size, body) are read back by  *)
(* read_message with expected type t as m, the whole frame consumed; with *)
(* another expected type, read_message fails with the wrong-message-type  *)
(* error, which it returns.                                               *)
C12_FramingRoundTrip ==
    /\ C12_Layout
    /\ wire.received.some
        => LET t == wire.sent.v.message_type
               r == wire.received.v
           IN  /\ (r.expected = t)
                    => /\ r.ret = Ok(TRUE)
                       /\ r.body = wire.sent.v.body
                       /\ r.pos = Len(wire.bytes)
               /\ (r.expected # t)
                    => /\ r.ret.kind = "Err"
                       /\ r.ret.details =
                            "read_message | wrong message type received from Siodb: "
                            \o ToString(t) \o ". Expected: "
                            \o ToString(r.expected) \o "."

C12_Witness ==
    /\ wire.received.some
    /\ wire.sent.v.message_type = TagServerResponse
    /\ wire.received.v.expected = TagServerResponse
    /\ Len(wire.sent.v.body) >= 128
    /\ wire.received.v.body = wire.sent.v.body
    /\ wire.received.v.ret = Ok(TRUE)

-----------------------------------------------------------------------------
(* What the claims expect of the null bitmap of a list of columns. *)
Ceil8(n) == (n + 7) \div 8
AnyNullable(cols) == \E i \in 1..Len(cols) : cols[i].is_null
ExpectedBitmapSize(cols) == IF AnyNullable(cols) THEN Ceil8(Len(cols)) ELSE 0

(* A call of next() that got past the row length and the bitmap. *)
RowRead(call) ==
    /\ call.op = "next"
    /\ call.row_length # <<>>
    /\ \E j \in 1..4 : call.row_length[j] # 0
    /\ call.ret.kind \in {"Ok", "Err"}

(* C13: null bitmap presence and size.  After an execute whose response   *)
(* has n >= 1 columns (and no error message) the result set says a bitmap *)
(* is present iff some column is nullable, and its byte size is ceil(n/8) *)
(* when present and 0 otherwise, for every n; next() takes exactly that   *)
(* many bitmap bytes between the row length and the payload.              *)
C13_BitmapPresenceAndSize ==
    /\ \A m \in ResponseRead(last) :
         (last.op = "execute" /\ m.message = <<>> /\ Len(m.column_description) >= 1)
            => /\ result_set.some
               /\ result_set.v.null_bit_mask_present = AnyNullable(m.column_description)
               /\ result_set.v.null_bit_mask_byte_size
                    = ExpectedBitmapSize(m.column_description)
    /\ RowRead(last)
         => /\ result_set.some
            /\ last.nread.bit_mask
                 = ExpectedBitmapSize(result_set.v.server_response.column_description)

C13_Witness ==
    /\ last.op = "execute"
    /\ \E m \in ResponseRead(last) :
         Len(m.column_description) = 2041 /\ AnyNullable(m.column_description)
    /\ last.ret.kind = "Panic"
    /\ conn = "panicked"

-----------------------------------------------------------------------------
(* The row on the stream as the claims describe it, read off wire.bytes   *)
(* without the decoder of the model.                                      *)

(* Is bit k (0 = least significant) of the byte b set? *)
BitSet(b, k) == (b \div (2 ^ k)) % 2 = 1

(* The bytes of the call's stream that hold the bitmap. *)
BitmapOf(call, bytes) ==
    SubSeq(bytes, call.nread.length + 1, call.nread.length + call.nread.bit_mask)

(* Is column i (from 0) marked NULL in the bitmap? *)
MarkedNull(bitmap, i) == BitSet(bitmap[i \div 8 + 1], i % 8)

(* The number of bytes of the varint at offset pos, and its value when it *)
(* has one or two bytes.                                                  *)
VarintWidth(bytes, pos) ==
    CHOOSE k \in 1..10 : /\ bytes[pos + k] < 128
                         /\ \A j \in 1..(k - 1) : bytes[pos + j] >= 128
VarintValue(bytes, pos) ==
    IF bytes[pos + 1] < 128 THEN bytes[pos + 1]
    ELSE (bytes[pos + 1] - 128) + 128 * bytes[pos + 2]

(* The bytes that the value of a column takes at offset pos. *)
WidthAt(field_type, bytes, pos) ==
    CASE field_type = "INT8" -> 1
      [] field_type = "INT32" -> VarintWidth(bytes, pos)
      [] field_type = "TEXT" -> VarintWidth(bytes, pos) + VarintValue(bytes, pos)

(* The offset after the values of the columns i.. that are not NULL. *)
RECURSIVE PayloadEnd(_, _, _, _, _)
PayloadEnd(cols, i, bitmap, bytes, pos) ==
    IF i = Len(cols) THEN pos
    ELSE IF bitmap # <<>> /\ MarkedNull(bitmap, i)
    THEN PayloadEnd(cols, i + 1, bitmap, bytes, pos)
    ELSE PayloadEnd(cols, i + 1, bitmap, bytes,
                    pos + WidthAt(cols[i + 1].field_type, bytes, pos))

(* A call of next() that returned a row. *)
RowAvailable(call) == call.op = "next" /\ call.ret = Ok(TRUE)

(* C14: null cells.  In every row that next() decodes with a bitmap       *)
(* present, cell i is NULL iff bit (i mod 8) of bitmap byte floor(i/8) is *)
(* set, and the payload bytes taken are exactly those of the values of    *)
(* the cells that are not NULL, in the order of the columns: a NULL cell  *)
(* takes none.                                                            *)
C14_NullCells ==
    (RowAvailable(last) /\ result_set.v.null_bit_mask_present)
        => LET cols == result_set.v.server_response.column_description
               row == result_set.v.current_row.v
               bitmap == BitmapOf(last, wire.bytes)
               start == last.nread.length + last.nread.bit_mask
           IN  /\ Len(row) = Len(cols)
               /\ Len(bitmap) = Ceil8(Len(cols))
               /\ \A i \in 0..(Len(cols) - 1) :
                    (row[i + 1] = None) <=> MarkedNull(bitmap, i)
               /\ start + last.nread.data = PayloadEnd(cols, 0, bitmap, wire.bytes, start)

C14_Witness ==
    /\ RowAvailable(last)
    /\ Len(result_set.v.server_response.column_description) = 9
    /\ BitmapOf(last, wire.bytes) = <<0, 1>>
    /\ result_set.v.current_row.v[9] = None
    /\ result_set.v.current_row.v[8] # None
    /\ last.nread.data = 8

-----------------------------------------------------------------------------
(* The scenario of the null bitmap: three nullable columns, and a row     *)
(* whose payload is varint(7), varint(2), "hi".                           *)
ScenarioColumns ==
    <<ColumnDescription("TEXT", TRUE), ColumnDescription("INT32", TRUE),
      ColumnDescription("TEXT", TRUE)>>
ScenarioPayload == <<7, 2, 104, 105>>
ScenarioRow(bitmap_byte) == <<Len(ScenarioPayload), bitmap_byte>> \o ScenarioPayload

IsNull(cell) == ~cell.some
IsInt32(cell, v) == cell.some /\ cell.v.t = "Int32" /\ cell.v.s = <<v, 0, 0, 0>>
IsText(cell, b) == cell.some /\ cell.v.t = "Text" /\ cell.v.s = b

(* next() is called on the scenario's result set with this row on the    *)
(* stream.                                                                *)
ScenarioCall(bitmap_byte) ==
    /\ Streaming(result_set)
    /\ result_set.v.server_response.column_description = ScenarioColumns
    /\ last'.op = "next"
    /\ wire'.bytes = ScenarioRow(bitmap_byte)

(* The call yields the row [NULL, 7, "hi"], takes the whole payload and   *)
(* counts one row.                                                        *)
ScenarioOutcome ==
    /\ last'.ret = Ok(TRUE)
    /\ result_set'.some /\ result_set'.v.current_row.some
    /\ LET row == result_set'.v.current_row.v
       IN  /\ Len(row) = 3
           /\ IsNull(row[1])
           /\ IsInt32(row[2], 7)
           /\ IsText(row[3], <<104, 105>>)
    /\ last'.nread = Reads(1, 1, Len(ScenarioPayload))
    /\ result_set'.v.row_count = result_set.v.row_count + 1

(* C15 as stated: with bitmap byte 0b00000101 one call of next() yields   *)
(* [NULL, 7, "hi"], takes the whole payload and adds 1 to row_count.      *)
C15_AsStated == [][ScenarioCall(5) => ScenarioOutcome]_vars

(* C15, amended: with three nullable columns [TEXT, INT32, TEXT], bitmap  *)
(* byte 0b00000001 and payload varint(7), varint(2), "hi", one call of    *)
(* next() yields the row [NULL, 7, "hi"], takes the whole payload and     *)
(* adds 1 to row_count.                                                   *)
C15_NullBitmapScenario == [][ScenarioCall(1) => ScenarioOutcome]_vars

C15_Witness ==
    /\ last.op = "next" /\ last.ret = Ok(TRUE)
    /\ wire.bytes = ScenarioRow(1)
    /\ result_set.v.server_response.column_description = ScenarioColumns
    /\ IsText(result_set.v.current_row.v[3], <<104, 105>>)
    /\ result_set.v.row_count = 1

-----------------------------------------------------------------------------
(* The row length that the length prefix of a row announces. *)
AnnouncedLength(call) ==
    call.row_length[1] + 256 * call.row_length[2] + 65536 * call.row_length[3]

(* C16: row length bound.  For every row the bytes that next() takes for  *)
(* the column payload do not exceed the row_length announced by the       *)
(* row's length prefix; the decoder does not read beyond the announced    *)
(* row.                                                                   *)
C16_RowLengthBound ==
    (last.op = "next" /\ last.row_length # <<>>)
        => last.nread.data <= AnnouncedLength(last)

C16_Witness ==
    /\ RowAvailable(last)
    /\ wire.bytes = <<1, 1, 7, 2, 104, 105>>
    /\ AnnouncedLength(last) = 1
    /\ last.nread.data = 4

-----------------------------------------------------------------------------
(* get_row_count() on a connection that holds a result set. *)
RowCount(rs) == rs.v.row_count

(* One call, as a step: what it does to the count of rows.  A call of     *)
(* next() that returns "row available" stores the row and adds 1; every   *)
(* other call of next() leaves the count; an execute that read a          *)
(* ServerResponse starts from 0; a rejected execute leaves the count.     *)
C17_Step ==
    /\ (last'.op = "next" /\ result_set.some /\ result_set'.some)
         => IF last'.ret = Ok(TRUE)
            THEN /\ RowCount(result_set') = RowCount(result_set) + 1
                 /\ result_set'.v.current_row.some
            ELSE RowCount(result_set') = RowCount(result_set)
    /\ (last'.op = "execute" /\ ResponseRead(last') # {} /\ result_set'.some)
         => RowCount(result_set') = 0
    /\ (last'.op = "execute" /\ IsMisuse(last'.ret))
         => RowCount(result_set') = RowCount(result_set)

(* C17: row_count.  After any sequence of calls row_count() is the number *)
(* of calls of next() that returned "row available" since the most recent *)
(* execute; it grows only when a row was decoded and stored as            *)
(* current_row.                                                           *)
C17_RowCount == [][C17_Step]_vars

C17_Witness ==
    /\ last.op = "next"
    /\ last.ret = DriverError("read_data | Unknow data type: BOOL.")
    /\ result_set.some
    /\ RowCount(result_set) = 1
    /\ ~result_set.v.current_row.some

-----------------------------------------------------------------------------
(* A query_row whose execute read a ServerResponse without messages. *)
QueryAnswered(call) ==
    call.op = "query_row" /\ \E m \in ResponseRead(call) : m.message = <<>>
AnsweredColumns(call) == (CHOOSE m \in ResponseRead(call) : TRUE).column_description

(* The row that starts at offset pos of the stream: where its values      *)
(* start, its bitmap, and where it ends.                                   *)
BitmapAt(cols, bytes, pos) ==
    IF AnyNullable(cols)
    THEN SubSeq(bytes, pos + VarintWidth(bytes, pos) + 1,
                pos + VarintWidth(bytes, pos) + Ceil8(Len(cols)))
    ELSE <<>>
ValuesAt(cols, bytes, pos) ==
    pos + VarintWidth(bytes, pos) + Len(BitmapAt(cols, bytes, pos))
RowEndAt(cols, bytes, pos) ==
    PayloadEnd(cols, 0, BitmapAt(cols, bytes, pos), bytes, ValuesAt(cols, bytes, pos))

(* The offset after the first row length of zero, going row by row. *)
RECURSIVE SentinelEnd(_, _, _)
SentinelEnd(cols, bytes, pos) ==
    IF bytes[pos + 1] = 0 THEN pos + 1
    ELSE SentinelEnd(cols, bytes, RowEndAt(cols, bytes, pos))

(* The cells of the first row of the stream, for INT8 and TEXT columns. *)
FirstRowCells(cols, bytes) ==
    [i \in 1..Len(cols) |->
        LET bitmap == BitmapAt(cols, bytes, 0)
            at == PayloadEnd(SubSeq(cols, 1, i - 1), 0, bitmap, bytes,
                             ValuesAt(cols, bytes, 0))
        IN  IF bitmap # <<>> /\ MarkedNull(bitmap, i - 1) THEN None
            ELSE IF cols[i].field_type = "INT8"
            THEN Some(Value("Int8", as_i8(bytes[at + 1]), <<>>, <<>>))
            ELSE Some(Value("Text", 0,
                            SubSeq(bytes, at + VarintWidth(bytes, at) + 1,
                                   at + VarintWidth(bytes, at) + VarintValue(bytes, at)),
                            <<>>))]

UnknownTypePanic ==
    Panic("called Result::unwrap() on an Err value: read_data | Unknow data type: BOOL.")

(* C18: query_row.  When the execute of a query_row read a ServerResponse *)
(* without error messages, the call never returns an error, and it fails   *)
(* only when the transport failed or a column has a type the driver does   *)
(* not decode.  When it returns: it returns no row if the response has no  *)
(* columns (nothing is read from the stream) or if the stream starts with  *)
(* the zero row length, and the first row of the stream otherwise; the     *)
(* bytes it took end with the first zero row length after whole rows; the  *)
(* result set is DRAINED, and every following execute is accepted (it is   *)
(* not rejected as misuse and it tries to write its Command).              *)
C18_QueryRow ==
    QueryAnswered(last) =>
        LET cols == AnsweredColumns(last)
            bytes == wire.bytes
        IN  /\ last.ret.kind # "Err"
            /\ last.ret.kind = "Panic"
                 => TransportFailed(last) \/ last.ret = UnknownTypePanic
            /\ last.ret.kind = "Ok" =>
                 /\ result_set.some /\ ~Streaming(result_set)
                 /\ \A sql \in Sqls, e \in ExecEnvs(result_set, TRUE) :
                        /\ ~IsMisuse(execute(result_set, sql, e).ret)
                        /\ WriteAttempts(execute(result_set, sql, e).io, TagCommand) # {}
                 /\ IF cols = <<>>
                    THEN last.ret.val = None /\ BytesRead(last) = 0
                    ELSE IF bytes[1] = 0
                    THEN last.ret.val = None /\ BytesRead(last) = 1
                    ELSE /\ last.ret.val = Some(FirstRowCells(cols, bytes))
                         /\ BytesRead(last) = SentinelEnd(cols, bytes, 0)

(* A query_row over two INT8 rows and the sentinel returns the first. *)
C18_Witness ==
    /\ QueryAnswered(last)
    /\ wire.bytes = <<1, 1, 1, 255, 0>>
    /\ AnsweredColumns(last) = <<ColumnDescription("INT8", FALSE)>>
    /\ last.ret = Ok(Some(<<Some(Value("Int8", 1, <<>>, <<>>))>>))
    /\ BytesRead(last) = 5
    /\ result_set.some /\ result_set.v.end_of_row /\ result_set.v.row_count = 2

-----------------------------------------------------------------------------
(* The affected row count the most recently read ServerResponse stands for. *)
AffectedRows(m) == IF m.has_affected_row_count THEN m.affected_row_count ELSE 0

(* C19: affected_row_count().  Once some execute has read a               *)
(* ServerResponse, every call of get_affected_row_count() returns the      *)
(* affected_row_count field of the ServerResponse read last if that        *)
(* response has has_affected_row_count set, and 0 otherwise, whatever      *)
(* calls of next() and rejected executes came in between; and a step that  *)
(* is a next() or an execute rejected as misuse leaves the value the       *)
(* getter would return as it is.                                          *)
C19_Step ==
    /\ (last'.op = "get_affected_row_count" /\ stats'.response.some)
         => last'.ret = Ok(AffectedRows(stats'.response.v))
    /\ (result_set.some /\ result_set'.some
         /\ (last'.op = "next" \/ (last'.op = "execute" /\ IsMisuse(last'.ret))))
         => /\ AffectedRows(result_set'.v.server_response)
                = AffectedRows(result_set.v.server_response)
            /\ stats'.response = stats.response
C19_AffectedRowCount == [][C19_Step]_vars

(* The count of a statement without rows is returned; and the count that  *)
(* came with a row set is returned while its rows are being fetched.      *)
C19_Witness ==
    /\ last.op = "get_affected_row_count"
    /\ last.ret = Ok(2)
    /\ stats.response = Some(ServerResponse(<<>>, <<ColumnDescription("INT8", FALSE)>>, TRUE, 2))
    /\ result_set.some /\ result_set.v.row_count = 1

-----------------------------------------------------------------------------
(* C20: close is terminal.  A close() that returns has shut the socket    *)
(* down (Shutdown::Both), and from then on no execute and no next() writes *)
(* a frame or takes bytes from the stream.                                 *)
C20_Step ==
    /\ (last'.op = "close" /\ last'.ret.kind = "Ok")
         => stream' = "shutdown" /\ last'.io = <<Ev("shutdown", 0, NoMsg)>>
    /\ (stream = "shutdown" /\ last'.op \in {"execute", "next"})
         => /\ \A t \in {TagCommand, TagBeginSessionRequest, TagClientAuthenticationRequest} : Writes(last'.io, t) = {}
            /\ \A i \in TransportReads(last'.io) : last'.io[i].ev = "read_failed"
            /\ BytesRead(last') = 0
C20_CloseTerminal == [][C20_Step]_vars

(* After a close() that returned, next() decodes a row from the stream. *)
C20_Witness ==
    /\ stream = "shutdown"
    /\ last.op = "next"
    /\ last.ret = Ok(TRUE)
    /\ BytesRead(last) = 2
    /\ result_set.v.current_row = Some(<<Some(Value("Int8", 1, <<>>, <<>>))>>)

-----------------------------------------------------------------------------
(* Values of the integer types.  Those of 32 and 64 bits are given by     *)
(* their two's-complement bytes, least significant first.                 *)
Small(t, n) == Value(t, n, <<>>, <<>>)
Wide(t, b) == Value(t, 0, b, <<>>)
U64Max == Wide("Uint64", <<255, 255, 255, 255, 255, 255, 255, 255>>)

(* The least and the greatest value of each integer type, with the bytes  *)
(* that encode it: -2^31 is the varint of 2^31 and also the ten bytes of   *)
(* the sign-extended varint; -2^63 is the varint of 2^63.                  *)
Case(t, payload, v) == [type |-> t, payload |-> payload, value |-> v]
IntegerCases ==
    {Case("INT8", <<128>>, Small("Int8", -128)), Case("INT8", <<127>>, Small("Int8", 127)),
     Case("UINT8", <<0>>, Small("Uint8", 0)), Case("UINT8", <<255>>, Small("Uint8", 255)),
     Case("INT16", <<0, 128>>, Small("Int16", -32768)),
     Case("INT16", <<255, 127>>, Small("Int16", 32767)),
     Case("UINT16", <<0, 0>>, Small("Uint16", 0)),
     Case("UINT16", <<255, 255>>, Small("Uint16", 65535)),
     Case("INT32", <<128, 128, 128, 128, 8>>, Wide("Int32", <<0, 0, 0, 128>>)),
     Case("INT32", <<128, 128, 128, 128, 248, 255, 255, 255, 255, 1>>,
          Wide("Int32", <<0, 0, 0, 128>>)),
     Case("INT32", <<255, 255, 255, 255, 7>>, Wide("Int32", <<255, 255, 255, 127>>)),
     Case("UINT32", <<0>>, Wide("Uint32", <<0, 0, 0, 0>>)),
     Case("UINT32", <<255, 255, 255, 255, 15>>, Wide("Uint32", <<255, 255, 255, 255>>)),
     Case("INT64", <<128, 128, 128, 128, 128, 128, 128, 128, 128, 1>>,
          Wide("Int64", <<0, 0, 0, 0, 0, 0, 0, 128>>)),
     Case("INT64", <<255, 255, 255, 255, 255, 255, 255, 255, 127>>,
          Wide("Int64", <<255, 255, 255, 255, 255, 255, 255, 127>>)),
     Case("UINT64", <<0>>, Wide("Uint64", <<0, 0, 0, 0, 0, 0, 0, 0>>)),
     Case("UINT64", <<255, 255, 255, 255, 255, 255, 255, 255, 255, 1>>, U64Max)}

(* next() was called on a result set with these columns and this stream. *)
Decoded(cols, bytes) ==
    /\ last.op = "next"
    /\ result_set.some
    /\ result_set.v.server_response.column_description = cols
    /\ wire.bytes = bytes
Yields(row) == last.ret = Ok(TRUE) /\ result_set.v.current_row = Some(row)

(* The row of the scenario: length 0x02, 0x80, n bytes 0xFF, 0x01. *)
IntegerRow(n) == <<2, 128>> \o [i \in 1..n |-> 255] \o <<1>>

IntegerWidths ==
    \A c \in IntegerCases :
        Decoded(<<ColumnDescription(c.type, FALSE)>>, <<Len(c.payload)>> \o c.payload)
            => Yields(<<Some(c.value)>>)

(* C21 as stated: with eight bytes 0xFF the row is [-128, 2^64 - 1]. *)
C21_AsStated ==
    /\ Decoded(IntegerRowColumns, IntegerRow(8))
         => Yields(<<Some(Small("Int8", -128)), Some(U64Max)>>)
    /\ IntegerWidths

(* C21, amended: with columns [INT8, UINT64], both non-null, the row bytes *)
(* 0x02, 0x80, nine bytes 0xFF and 0x01 decode to the row                  *)
(* [-128, 18446744073709551615]; and the least and the greatest value of   *)
(* INT8, UINT8, INT16, UINT16, INT32, UINT32, INT64 and UINT64 decode to   *)
(* themselves: one byte as two's complement, two little-endian bytes, the  *)
(* low 32 bits of the varint, the 64 bits of the varint.                   *)
C21_IntegerRow ==
    /\ Decoded(IntegerRowColumns, IntegerRow(9))
         => Yields(<<Some(Small("Int8", -128)), Some(U64Max)>>)
    /\ IntegerWidths

C21_Witness ==
    /\ Decoded(IntegerRowColumns, IntegerRow(9))
    /\ Yields(<<Some(Small("Int8", -128)), Some(U64Max)>>)
    /\ BytesRead(last) = 12

-----------------------------------------------------------------------------
(* next() was called on a result set with one TIMESTAMP column and a row  *)
(* (not the zero row length) on the stream; its date and time bytes.      *)
TimestampColumns == <<ColumnDescription("TIMESTAMP", FALSE)>>
TimestampCall ==
    /\ last.op = "next"
    /\ wire.bytes # <<>> /\ wire.bytes[1] # 0
    /\ IF result_set.some
       THEN result_set.v.server_response.column_description = TimestampColumns
       ELSE stats.response = Some(ServerResponse(<<>>, TimestampColumns, FALSE, 0))
DateOf(bytes) == SubSeq(bytes, 2, 5)
TimeOf(bytes) == SubSeq(bytes, 6, 11)
Timed(bytes) == bytes[2] % 2 = 1

(* The fields of the date bytes and of the time bytes, as the layout      *)
(* gives them.                                                            *)
YearField(d) == (d[2] \div 32) + 8 * d[3] + 2048 * d[4]
SignedYear(d) == IF YearField(d) >= 262144 THEN YearField(d) - 524288 ELSE YearField(d)
MonthField(d) == ((d[2] \div 2) % 16) + 1
DayField(d) == (d[1] \div 16) + 16 * (d[2] % 2) + 1
HoursField(t) == t[6] \div 8
MinutesField(t) == (t[5] \div 32) + 8 * (t[6] % 8)
SecondsField(t) == (t[4] \div 128) + 2 * (t[5] % 32)
NanosField(t) ==
    (t[1] \div 2) + 128 * t[2] + 32768 * t[3] + 8388608 * (t[4] % 128)

(* The date exists and the time is one of a day. *)
LastDay(y, m) ==
    IF m = 2 THEN (IF (y % 4 = 0 /\ y % 100 # 0) \/ y % 400 = 0 THEN 29 ELSE 28)
    ELSE IF m \in {4, 6, 9, 11} THEN 30 ELSE 31
InCalendar(bytes) ==
    /\ MonthField(DateOf(bytes)) <= 12
    /\ DayField(DateOf(bytes)) <= LastDay(SignedYear(DateOf(bytes)), MonthField(DateOf(bytes)))
    /\ Timed(bytes) =>
          /\ HoursField(TimeOf(bytes)) <= 23
          /\ MinutesField(TimeOf(bytes)) <= 59
          /\ SecondsField(TimeOf(bytes)) <= 59
          /\ NanosField(TimeOf(bytes)) <= 999999999

(* The year of the cell that the call decoded. *)
DecodedTimestamp == result_set.v.current_row.v[1].v.ts

(* C22: timestamp year.  A TIMESTAMP cell whose other fields are those of *)
(* a date and a time is decoded, and its year is the 19-bit field d1 bits  *)
(* 5..7, d2, d3 read as a signed number: negative when bit 18 is set.      *)
C22_SignedYear ==
    (TimestampCall /\ InCalendar(wire.bytes))
        => /\ last.ret = Ok(TRUE)
           /\ DecodedTimestamp[1] = SignedYear(DateOf(wire.bytes))

(* The year field 0x40000 (bit 18 alone), 1 January, no time part. *)
C22_Witness ==
    /\ TimestampCall
    /\ wire.bytes = <<4, 0, 0, 0, 128>>
    /\ SignedYear(DateOf(wire.bytes)) = -262144
    /\ last.ret = Panic("invalid or out-of-range date")

-----------------------------------------------------------------------------
(* C23: timestamp field ranges.  Whatever the 4 date bytes and the 6 time *)
(* bytes are, next() decodes the TIMESTAMP cell, and its day of month is   *)
(* in 1..31, its month in 1..12, its hours in 0..23, its minutes and       *)
(* seconds in 0..59 and its nanoseconds in 0..10^9-1.                      *)
C23_FieldRanges ==
    TimestampCall
        => /\ last.ret = Ok(TRUE)
           /\ DecodedTimestamp[2] \in 1..12
           /\ DecodedTimestamp[3] \in 1..31
           /\ DecodedTimestamp[4] \in 0..23
           /\ DecodedTimestamp[5] \in 0..59
           /\ DecodedTimestamp[6] \in 0..59
           /\ DecodedTimestamp[7] >= 0 /\ DecodedTimestamp[7] <= 999999999

(* Month bits 1111 (month 16) end in the panic of Utc.ymd. *)
C23_Witness ==
    /\ TimestampCall
    /\ wire.bytes = <<4, 0, 30, 0, 0>>
    /\ MonthField(DateOf(wire.bytes)) = 16
    /\ last.ret = Panic("invalid or out-of-range date")

-----------------------------------------------------------------------------
(* The first column, from 1, whose type next() has no decoder for and     *)
(* whose cell the bitmap of the row does not mark; 0 if there is none.     *)
UnknownCell(cols, bytes) ==
    LET bitmap == BitmapAt(cols, bytes, 0)
        unknown == {i \in 1..Len(cols) :
                      /\ cols[i].field_type \notin SupportedTypes
                      /\ ~(bitmap # <<>> /\ MarkedNull(bitmap, i - 1))}
    IN  IF unknown = {} THEN 0 ELSE CHOOSE i \in unknown : \A j \in unknown : i <= j

(* C24: unknown column type.  When next() reads a row in which a cell     *)
(* that is not NULL belongs to a column of a type outside the thirteen     *)
(* supported ones (the cells before it being decoded), it returns the      *)
(* error "Unknow data type" to the caller and current_row stays what it    *)
(* was.                                                                    *)
C24_Step ==
    (/\ last'.op = "next"
     /\ Streaming(result_set)
     /\ wire'.bytes # <<>> /\ wire'.bytes[1] # 0
     /\ UnknownCell(result_set.v.server_response.column_description, wire'.bytes) # 0)
        => /\ last'.ret = DriverError("read_data | Unknow data type: BOOL.")
           /\ conn' = "open"
           /\ result_set'.some
           /\ result_set'.v.current_row = result_set.v.current_row
C24_UnknownType == [][C24_Step]_vars

(* The second row fails on the BOOL cell after its TEXT cell was read;   *)
(* the row of the call before is still the current one.                   *)
C24_Witness ==
    /\ last.op = "next"
    /\ last.ret = DriverError("read_data | Unknow data type: BOOL.")
    /\ wire.bytes = <<2, 0, 0, 1>>
    /\ result_set.v.server_response.column_description = UnknownRowColumns
    /\ result_set.v.current_row = Some(<<Some(Value("Text", 0, <<>>, <<>>)), None>>)
    /\ result_set.v.row_count = 2

-----------------------------------------------------------------------------
(* The result set that a ServerResponse alone stands for: no row, count   *)
(* 0; rows to come iff it has no message and some column; a bitmap of      *)
(* ceil(n/8) bytes iff rows are to come and some column is nullable.       *)
FreshResultSet(m) ==
    LET rows == m.message = <<>> /\ m.column_description # <<>>
        bitmap == rows /\ AnyNullable(m.column_description)
    IN  [server_response |-> m,
         null_bit_mask_present |-> bitmap,
         null_bit_mask_byte_size |-> IF bitmap THEN Ceil8(Len(m.column_description)) ELSE 0,
         end_of_row |-> ~rows,
         current_row |-> None,
         row_count |-> 0]

(* C25: execute replaces the result set.  After every execute that read a *)
(* ServerResponse and returned (with Ok or with the server's error), the   *)
(* connection holds exactly the result set that this response stands for:  *)
(* row_count 0, no current_row, end_of_row false iff the response has no   *)
(* message and has columns, bitmap flag and size from its columns; nothing *)
(* depends on the result set held before.                                  *)
C25_Step ==
    (last'.op = "execute" /\ ResponseRead(last') # {} /\ conn' = "open")
        => \A m \in ResponseRead(last') : result_set' = Some(FreshResultSet(m))
C25_Replaced == [][C25_Step]_vars

(* An execute answered with a nullable column, on a connection that has   *)
(* fetched rows before.                                                   *)
C25_Witness ==
    /\ last.op = "execute"
    /\ ResponseRead(last) # {}
    /\ result_set.some
    /\ result_set.v.null_bit_mask_present /\ result_set.v.null_bit_mask_byte_size = 1
    /\ ~result_set.v.end_of_row
    /\ result_set.v.row_count = 0 /\ ~result_set.v.current_row.some

-----------------------------------------------------------------------------
(* The reads of the identity file in the events of a call, failed ones    *)
(* included.                                                              *)
FileReads(io) == {i \in 1..Len(io) : io[i].ev \in {"file_read", "file_read_failed"}}
SessionAnswers(io, started) ==
    {i \in 1..Len(io) : /\ io[i].ev = "read"
                        /\ io[i].tag = TagBeginSessionResponse
                        /\ io[i].msg.session_started = started}

(* C26: identity file access.  In every call of new the identity file is  *)
(* read at most once, and only after a BeginSessionResponse with           *)
(* session_started = true was read and before any                          *)
(* ClientAuthenticationRequest is written; a handshake that succeeds reads *)
(* it exactly once; after session_started = false it is not read; and no   *)
(* other call reads it.                                                    *)
C26_IdentityFile ==
    /\ Cardinality(FileReads(last.io)) <= 1
    /\ \A i \in FileReads(last.io) :
          /\ last.op = "new"
          /\ \E j \in SessionAnswers(last.io, TRUE) : j < i
          /\ \A k \in WriteAttempts(last.io, TagClientAuthenticationRequest) : i < k
    /\ (last.op = "new" /\ last.ret.kind = "Ok")
         => /\ Cardinality(FileReads(last.io)) = 1
            /\ WriteAttempts(last.io, TagClientAuthenticationRequest) # {}
    /\ SessionAnswers(last.io, FALSE) # {} => FileReads(last.io) = {}

C26_Witness ==
    /\ last.op = "new" /\ last.ret.kind = "Ok"
    /\ Len(last.io) = 5
    /\ last.io[2].ev = "read" /\ last.io[2].msg.session_started
    /\ last.io[3].ev = "file_read"
    /\ last.io[4].ev = "write" /\ last.io[4].tag = TagClientAuthenticationRequest

-----------------------------------------------------------------------------
(* The variant of Value that holds a cell of a column type. *)
VariantOf(field_type) ==
    CASE field_type = "INT8" -> "Int8"     [] field_type = "UINT8" -> "Uint8"
      [] field_type = "INT16" -> "Int16"   [] field_type = "UINT16" -> "Uint16"
      [] field_type = "INT32" -> "Int32"   [] field_type = "UINT32" -> "Uint32"
      [] field_type = "INT64" -> "Int64"   [] field_type = "UINT64" -> "Uint64"
      [] field_type = "FLOAT" -> "Float"   [] field_type = "DOUBLE" -> "Double"
      [] field_type = "TEXT" -> "Text"     [] field_type = "BINARY" -> "Binary"
      [] field_type = "TIMESTAMP" -> "Timestamp"
      [] OTHER -> "none"

(* C27: shape of a row.  Whenever next() returns "row available", the     *)
(* current row has as many cells as the stored response has column         *)
(* descriptors, and cell i is NULL or a value of the variant of the type   *)
(* of column i.                                                            *)
C27_RowShape ==
    RowAvailable(last) =>
        /\ result_set.some /\ result_set.v.current_row.some
        /\ LET cols == result_set.v.server_response.column_description
               row == result_set.v.current_row.v
           IN  /\ Len(row) = Len(cols)
               /\ \A i \in 1..Len(cols) :
                     \/ row[i] = None
                     \/ row[i].some /\ row[i].v.t = VariantOf(cols[i].field_type)

(* Three columns, the second cell NULL. *)
C27_Witness ==
    /\ RowAvailable(last)
    /\ result_set.v.server_response.column_description = MixedRowColumns
    /\ wire.bytes = <<4, 2, 2, 104, 105, 128>>
    /\ result_set.v.current_row.v
         = <<Some(Value("Text", 0, <<104, 105>>, <<>>)), None, Some(Value("Int8", -128, <<>>, <<>>))>>

-----------------------------------------------------------------------------
(* The call read a ClientAuthenticationResponse with authenticated = true. *)
Authenticated(io) ==
    \E i \in 1..Len(io) : /\ io[i].ev = "read"
                           /\ io[i].tag = TagClientAuthenticationResponse
                           /\ io[i].msg.authenticated

(* C28: handshake before commands.  A connection exists only through a    *)
(* new whose handshake wrote the frames 5 and 7 once each, wrote no        *)
(* Command and read authenticated = true; every call that writes (or       *)
(* tries to write) a Command is made on such a connection; no call but new *)
(* writes a frame 5 or 7, no new writes either of them twice, and new is   *)
(* never run on a connection that has written a Command.                   *)
C28_Step ==
    /\ (conn' = "open" /\ conn # "open") => last'.op = "new"
    /\ (last'.op = "new" /\ conn' = "open")
         => /\ Cardinality(Writes(last'.io, TagBeginSessionRequest)) = 1
            /\ Cardinality(Writes(last'.io, TagClientAuthenticationRequest)) = 1
            /\ Authenticated(last'.io)
    /\ last'.op = "new"
         => /\ conn = "none" /\ ~stats.commands
            /\ WriteAttempts(last'.io, TagCommand) = {}
            /\ Cardinality(WriteAttempts(last'.io, TagBeginSessionRequest)) <= 1
            /\ Cardinality(WriteAttempts(last'.io, TagClientAuthenticationRequest)) <= 1
    /\ last'.op # "new"
         => /\ WriteAttempts(last'.io, TagBeginSessionRequest) = {}
            /\ WriteAttempts(last'.io, TagClientAuthenticationRequest) = {}
            /\ WriteAttempts(last'.io, TagCommand) # {} => conn = "open"
C28_HandshakeFirst == [][C28_Step]_vars

(* A Command has been written on the connection. *)
C28_Witness ==
    /\ last.op = "execute"
    /\ Writes(last.io, TagCommand) # {}
    /\ stats.commands
    /\ conn = "open"

-----------------------------------------------------------------------------
(* C29: next() on a drained result set.  A call of next() takes bytes     *)
(* from the stream, or tries to, only if a result set exists whose         *)
(* end_of_row is false; on a result set whose end_of_row is true (after    *)
(* the zero row length, after a response without columns, after a          *)
(* response with error messages) it returns "no more rows", reads nothing  *)
(* and leaves the result set, with row_count, current_row and end_of_row,  *)
(* as it is.                                                               *)
C29_Step ==
    last'.op = "next" =>
        /\ ~Streaming(result_set)
             => BytesRead(last') = 0 /\ TransportReads(last'.io) = {}
        /\ (result_set.some /\ result_set.v.end_of_row)
             => /\ last'.ret = Ok(FALSE)
                /\ result_set' = result_set
                /\ conn' = conn /\ stream' = stream
C29_DrainedNext == [][C29_Step]_vars

(* next() on a result set that was drained after a row was fetched. *)
C29_Witness ==
    /\ last.op = "next"
    /\ last.ret = Ok(FALSE)
    /\ last.row_length = <<>>
    /\ BytesRead(last) = 0
    /\ result_set.some /\ result_set.v.end_of_row
    /\ result_set.v.row_count = 1 /\ result_set.v.current_row.some

-----------------------------------------------------------------------------
(* A row length was read and it is zero. *)
ZeroRowLength(call) == call.row_length # <<>> /\ \A j \in 1..4 : call.row_length[j] = 0

(* C30: a failed next() keeps the result set streaming.  A next() that    *)
(* returns an error (unknown column type) leaves end_of_row false and the  *)
(* response, the bitmap flag and size and current_row as they were; while  *)
(* end_of_row is false every execute is rejected as misuse and changes     *)
(* nothing; and on a connection that stays usable end_of_row becomes true  *)
(* only by a next() that reads a zero row length.                          *)
C30_Step ==
    /\ (last'.op = "next" /\ last'.ret.kind = "Err")
         => /\ Streaming(result_set) /\ Streaming(result_set')
            /\ result_set'.v.server_response = result_set.v.server_response
            /\ result_set'.v.null_bit_mask_present = result_set.v.null_bit_mask_present
            /\ result_set'.v.null_bit_mask_byte_size = result_set.v.null_bit_mask_byte_size
            /\ result_set'.v.current_row = result_set.v.current_row
    /\ (Streaming(result_set) /\ last'.op = "execute")
         => IsMisuse(last'.ret) /\ result_set' = result_set
    /\ (Streaming(result_set) /\ ~Streaming(result_set') /\ conn' = "open")
         => /\ last'.op = "next"
            /\ last'.ret = Ok(FALSE)
            /\ ZeroRowLength(last')
C30_FailedNextStreams == [][C30_Step]_vars

(* The second next() in a row that fails on the column of unknown type. *)
C30_Witness ==
    /\ last.op = "next"
    /\ last.ret.kind = "Err"
    /\ Streaming(result_set)
    /\ result_set.v.row_count = 2
    /\ \A sql \in Sqls, e \in ExecEnvs(result_set, TRUE) :
          IsMisuse(execute(result_set, sql, e).ret)

====
